---- MODULE Spec2Model ----
(***************************************************************************)
(* Model of the product fetch pipeline of consume-n-produce (the           *)
(* self-contained worker program):                                         *)
(*   - ResponseCache: a TTL cache with hit/miss counters whose entries are *)
(*     rewritten to a snapshot file after every mutation,                  *)
(*   - processEndpoint: the per-endpoint paginator, with its two-tier page *)
(*     fetch (direct request, then fetchWithPuppeteer),                    *)
(*   - mainThread and workerThread: one worker thread per endpoint, whose  *)
(*     results mainThread concatenates once all of them have exited.       *)
(* One paginator run is a sequence of atomic steps, one per await point of *)
(* the async function.  Runs follow each other; each run constructs its    *)
(* own ResponseCache from the snapshot file.  The clock is the value the   *)
(* cache operations read from Date.now(); it advances in Tick steps, which *)
(* may occur between any two steps of a run.                               *)
(* Spec is the paginator, CacheSpec a thread calling the methods of one    *)
(* cache object, SnapshotSpec the construction of cache objects from any   *)
(* content of the snapshot file, PoolSpec the main thread and its workers  *)
(* (PoolLive with the fairness of their scheduling), ClassifySpec a call   *)
(* of classifyProduct of organizeCollections and NormalizeSpec a call of   *)
(* processProduct on a raw record.  RunSpec is the paginator without the   *)
(* clock (RunLive with every request settling and every timer firing),     *)
(* KeySpec the paginator on URLs that share a host or a sanitized host,    *)
(* OrganizeSpec the loop of organizeCollections over its input files and   *)
(* FilterSpec a call of filterProductsByPrice.                             *)
(***************************************************************************)
EXTENDS Integers, Sequences, FiniteSets, TLC

(* ------------------------- program constants --------------------------- *)
MAX_RETRIES == 3
DELAY_BETWEEN_REQUESTS == 2000
PAGE_LIMIT == 250
CACHE_TTL == 3600000
MINIMUM_PRICE == 25

(* ------------------------------ bounds --------------------------------- *)
\* number of catalog pages an endpoint can serve in full
MaxFullPages == 1
\* length of a last, partially filled page
ShortLen == 10
\* number of paginator runs in one behaviour
MaxRuns == 2
\* the last instant of the clock: one millisecond past the first expiry
MaxClock == 3600001
\* number of get and has calls on one cache object between two clears
MaxCalls == 2
\* os.cpus().length of the machine
Cpus == 2
\* number of variants of a raw record
MaxVariants == 3
\* number of products in one input: the elements of the files
\* organizeCollections reads, the array handed to filterProductsByPrice
MaxProducts == 3

(* ----------------------------- endpoints ------------------------------- *)
GoodEndpoints == {"https://a.com/products.json", "https://b.com/products.json"}
BadEndpoints == {"not a url"}
Endpoints == GoodEndpoints \cup BadEndpoints

\* further URLs processEndpoint accepts: a second catalog path on the host
\* of the first endpoint, and a host that differs from it in one character
OtherEndpoints == {"https://a.com/collections/sale/products.json", "https://a-com/products.json"}

\* new URL(endpoint) throws a TypeError on a string that is not a URL
UrlParses(e) == e \in GoodEndpoints \cup OtherEndpoints

\* new URL(endpoint).hostname, a string: the sequence of its characters
hostname(e) ==
  CASE e = "https://a.com/products.json" -> <<"a", ".", "c", "o", "m">>
    [] e = "https://b.com/products.json" -> <<"b", ".", "c", "o", "m">>
    [] e = "https://a.com/collections/sale/products.json" -> <<"a", ".", "c", "o", "m">>
    [] e = "https://a-com/products.json" -> <<"a", "-", "c", "o", "m">>

\* String.prototype.toLowerCase
toLowerCase(text) ==
  [i \in 1..Len(text) |->
     CASE text[i] = "A" -> "a" [] text[i] = "B" -> "b" [] text[i] = "H" -> "h"
       [] text[i] = "T" -> "t" [] OTHER -> text[i]]

\* name.replace(/[^a-z0-9]/gi, "_").toLowerCase()
sanitizeFilename(name) ==
  LET alphanumeric ==
        {"a", "b", "c", "d", "e", "f", "g", "h", "i", "j", "k", "l", "m", "n", "o",
         "p", "q", "r", "s", "t", "u", "v", "w", "x", "y", "z",
         "0", "1", "2", "3", "4", "5", "6", "7", "8", "9"}
      kept(ch) == ch \in alphanumeric \/ toLowerCase(<<ch>>)[1] \in alphanumeric
  IN toLowerCase([i \in 1..Len(name) |-> IF kept(name[i]) THEN name[i] ELSE "_"])

\* `products_${sanitizeFilename(hostname)}`
cacheKey(e) == <<"products_">> \o sanitizeFilename(hostname(e))

(* ------------------------- the served catalog -------------------------- *)
EndpointNo(e) ==
  CASE e = "https://a.com/products.json" -> 1
    [] e = "https://a.com/collections/sale/products.json" -> 3
    [] e = "https://a-com/products.json" -> 4
    [] OTHER -> 2

\* the i-th record of page p of endpoint e
Rec(e, p, i) == EndpointNo(e) * 100000 + p * 1000 + i

\* An array of records is kept as the sequence of the page slices it was
\* built from: a slice [endpoint, page, len] stands for the first len records
\* of that page, in source order.
Slice(e, p, n) == [endpoint |-> e, page |-> p, len |-> n]

\* the records of a slice
Records(sl) == [i \in 1..sl.len |-> Rec(sl.endpoint, sl.page, i)]

\* the array a sequence of slices stands for
RECURSIVE Flatten(_)
Flatten(arr) ==
  IF arr = <<>> THEN <<>>
  ELSE Flatten(SubSeq(arr, 1, Len(arr) - 1)) \o Records(arr[Len(arr)])

\* array.length
RECURSIVE Length(_)
Length(arr) ==
  IF arr = <<>> THEN 0
  ELSE Length(SubSeq(arr, 1, Len(arr) - 1)) + arr[Len(arr)].len

\* the products array of a response: the first n records of page p
PageRecords(e, p, n) == IF n = 0 THEN <<>> ELSE <<Slice(e, p, n)>>

\* the page lengths an endpoint may answer with for page p
PageLens(p) == {0, ShortLen} \cup (IF p <= MaxFullPages THEN {PAGE_LIMIT} ELSE {})

(* ---------------------------- ResponseCache ---------------------------- *)
\* A Map is a sequence of [key, data, expiry] entries in insertion order.
\* A cache object c has the fields cache, hitCount, missCount, cacheFile.
null == [isNull |-> TRUE]

\* new Map()
EmptyMap == <<>>

\* Map.has(key)
MapHas(m, key) == \E i \in 1..Len(m) : m[i].key = key

\* the position of key in the Map
MapIndex(m, key) == CHOOSE i \in 1..Len(m) : m[i].key = key

\* Map.set(key, entry) that keeps the entry a key already has
MapSet_insertOnly(m, key, data, expiry) ==
  IF MapHas(m, key) THEN m
  ELSE Append(m, [key |-> key, data |-> data, expiry |-> expiry])

\* Map.set(key, entry): replace in place, or append
MapSet(m, key, data, expiry) ==
  IF MapHas(m, key)
  THEN [m EXCEPT ![MapIndex(m, key)] = [key |-> key, data |-> data, expiry |-> expiry]]
  ELSE Append(m, [key |-> key, data |-> data, expiry |-> expiry])

\* Map.delete(key)
MapDelete(m, key) ==
  IF MapHas(m, key)
  THEN SubSeq(m, 1, MapIndex(m, key) - 1) \o SubSeq(m, MapIndex(m, key) + 1, Len(m))
  ELSE m

\* the value of a property that is not there
undefined == [isUndefined |-> TRUE]

\* the Map key undefined, and the key null that JSON turns it into
undefinedKey == <<"undefined">>
nullKey == <<"null">>

\* The snapshot file: absent, or a text.  The text saveCache writes is the
\* JSON of a list of [key, entry] pairs (kind "entries"); the other kinds are
\* texts that something else left in the file.
NoFile == [exists |-> FALSE, kind |-> "none", entries |-> <<>>]

\* a file that cannot be read, or whose text is not the JSON of a list of
\* [key, entry] pairs:
\*   "unreadable"    readFileSync throws
\*   "not json"      a text JSON.parse rejects, such as a truncated snapshot
\*   "null"          the JSON null
\*   "not iterable"  a JSON object or number
\*   "not objects"   a JSON list of numbers or strings
\*   "not pairs"     a JSON list of one object without the properties 0 and 1
DamageKinds ==
  {"unreadable", "not json", "null", "not iterable", "not objects", "not pairs"}

Damaged(kind) == [exists |-> TRUE, kind |-> kind, entries |-> <<>>]

\* the [key, entry] pair JSON.stringify writes for a Map entry: undefined is
\* written as null
JsonPair(e) ==
  IF e.key = undefinedKey THEN <<nullKey, [data |-> null, expiry |-> null]>>
  ELSE <<e.key, [data |-> e.data, expiry |-> e.expiry]>>

\* JSON.stringify(Array.from(this.cache.entries())): a list of [key, entry]
Stringify(m) == [i \in 1..Len(m) |-> JsonPair(m[i])]

\* new Map(JSON.parse(data)): later pairs of a key win, first position kept
RECURSIVE Parse(_)
Parse(pairs) ==
  IF pairs = <<>> THEN EmptyMap
  ELSE LET last == pairs[Len(pairs)]
       IN MapSet(Parse(SubSeq(pairs, 1, Len(pairs) - 1)),
                 last[1], last[2].data, last[2].expiry)

\* saveCache: rewrite the snapshot with all entries; a failed write is logged
saveCache(c, ok) ==
  IF ok
  THEN [c EXCEPT !.cacheFile =
          [exists |-> TRUE, kind |-> "entries", entries |-> Stringify(c.cache)]]
  ELSE c

\* loadCache: the Map built from the snapshot.  Without a file, and whenever
\* reading, JSON.parse or new Map throws, the empty Map of the field
\* initializer stays; new Map(null) is empty; new Map of a list of objects
\* that are not pairs maps undefined to undefined.
loadCache(file) ==
  IF ~file.exists THEN EmptyMap
  ELSE CASE file.kind = "entries" -> Parse(file.entries)
         [] file.kind = "not pairs" ->
              <<[key |-> undefinedKey, data |-> undefined, expiry |-> undefined]>>
         [] OTHER -> EmptyMap

\* new ResponseCache()
NewCache(file) ==
  [cache |-> loadCache(file), hitCount |-> 0, missCount |-> 0, cacheFile |-> file]

\* set(key, data, ttl) at time t
set(c, key, data, ttl, t, ok) ==
  saveCache([c EXCEPT !.cache = MapSet(c.cache, key, data, t + ttl)], ok)

\* get(key) with an entry expiring at the instant of its expiry
getResult_strict(c, key, t) ==
  IF ~MapHas(c.cache, key) THEN null
  ELSE IF t >= c.cache[MapIndex(c.cache, key)].expiry THEN null
  ELSE c.cache[MapIndex(c.cache, key)].data

\* the value get(key) returns at time t
getResult(c, key, t) ==
  IF ~MapHas(c.cache, key) THEN null
  ELSE IF t > c.cache[MapIndex(c.cache, key)].expiry THEN null
  ELSE c.cache[MapIndex(c.cache, key)].data

\* the cache object after get(key) at time t
get(c, key, t, ok) ==
  IF ~MapHas(c.cache, key)
  THEN [c EXCEPT !.missCount = @ + 1]
  ELSE IF t > c.cache[MapIndex(c.cache, key)].expiry
  THEN [saveCache([c EXCEPT !.cache = MapDelete(c.cache, key)], ok)
          EXCEPT !.missCount = @ + 1]
  ELSE [c EXCEPT !.hitCount = @ + 1]

\* has(key) with an entry expiring at the instant of its expiry
hasResult_strict(c, key, t) ==
  MapHas(c.cache, key) /\ t < c.cache[MapIndex(c.cache, key)].expiry

\* the value has(key) returns at time t
hasResult(c, key, t) ==
  MapHas(c.cache, key) /\ t <= c.cache[MapIndex(c.cache, key)].expiry

\* has(key) that counts hits only
has_hitsOnly(c, key, t) ==
  IF hasResult(c, key, t) THEN [c EXCEPT !.hitCount = @ + 1] ELSE c

\* the cache object after has(key) at time t
has(c, key, t) ==
  IF hasResult(c, key, t) THEN [c EXCEPT !.hitCount = @ + 1]
  ELSE [c EXCEPT !.missCount = @ + 1]

\* clear() that leaves the miss counter alone
clear_keepMisses(c, ok) ==
  saveCache([c EXCEPT !.cache = EmptyMap, !.hitCount = 0], ok)

\* clear()
clear(c, ok) ==
  saveCache([c EXCEPT !.cache = EmptyMap, !.hitCount = 0, !.missCount = 0], ok)

(* ------------------------- JavaScript values --------------------------- *)
\* A string is the sequence of its characters.  A value of a field of a
\* product is undefined, null, a string, a number or an array of values.
Str(chars) == [t |-> "string", s |-> chars]
Arr(items) == [t |-> "array", a |-> items]

\* A number is kept in hundredths: Num(1999) is 19.99.
Num(n) == [t |-> "number", n |-> n, nan |-> FALSE]
NaN == [t |-> "number", n |-> 0, nan |-> TRUE]

\* typeof, with "array" for what Array.isArray accepts
TypeOf(v) ==
  IF v = undefined THEN "undefined" ELSE IF v = null THEN "null" ELSE v.t

\* whether if (v), v || x and v ? x : y take v for true
Truthy(v) ==
  CASE TypeOf(v) \in {"undefined", "null"} -> FALSE
    [] TypeOf(v) = "string" -> v.s # <<>>
    [] TypeOf(v) = "number" -> ~v.nan /\ v.n # 0
    [] OTHER -> TRUE

\* the words the keywords, the texts and the tags are made of
Words ==
  [hat |-> <<"h", "a", "t">>,
   Hat |-> <<"H", "a", "t">>,
   bath |-> <<"b", "a", "t", "h">>,
   BATH |-> <<"B", "A", "T", "H">>,
   tshirt |-> <<"t", "-", "s", "h", "i", "r", "t">>,
   giftcard |-> <<"g", "i", "f", "t", " ", "c", "a", "r", "d">>,
   a |-> <<"a">>,
   b |-> <<"b">>]

(* ---------------------------- classifier ------------------------------- *)
\* COLLECTIONS, as the sequence of its entries: four of the configured
\* categories, each with some of its keywords
COLLECTIONS ==
  <<[name |-> "digital", keywords |-> <<Words.giftcard>>, priority |-> 1],
    [name |-> "apparel", keywords |-> <<Words.tshirt, Words.hat>>, priority |-> 2],
    [name |-> "home", keywords |-> <<Words.bath>>, priority |-> 5],
    [name |-> "uncategorized", keywords |-> <<>>, priority |-> 99]>>

\* no product has been handed to classifyProduct, and it has returned nothing
NoProduct == [isNone |-> TRUE]
NoCategory == "none"

(* ---------------------------- normalizer ------------------------------- *)
\* processProduct has not been called
NoRaw == [isNone |-> TRUE]
NotCalled == [by |-> "none", outcome |-> [ended |-> "not called"]]

\* organizeCollections is not running; filterProductsByPrice was not called
NotStarted == [pc |-> "none"]
NotFiltering == [called |-> FALSE]

(* ------------------------------- state --------------------------------- *)
VARIABLES
  cache,        \* ResponseCache.cache of the current run
  hitCount,     \* ResponseCache.hitCount
  missCount,    \* ResponseCache.missCount
  cacheFile,    \* content of the snapshot file ./cache.json
  now,          \* Date.now() as the cache operations read it
  pc,           \* position of processEndpoint
  endpoint,     \* argument of the current run
  allProducts,  \* local allProducts
  page,         \* local page
  hasMorePages, \* local hasMorePages
  retries,      \* local retries
  direct,       \* outcome of the direct request in the current loop iteration
  fallback,     \* outcome of fetchWithPuppeteer in the current loop iteration
  returned,     \* value the run resolved with
  attempts,     \* history: the page requests of the current run
  delays,       \* history: the timer delays of the current run
  setLog,       \* history: the cache.set calls of the current run
  startFile,    \* history: the snapshot file when the run started
  startTime,    \* history: the clock when the run started
  runs,         \* history: number of runs started
  op,           \* history: the last call made on the cache object from outside a run
  calls,        \* history: get and has calls since construction or the last clear
  lastSet,      \* history: per key, the last set since construction or the last clear
  workers,      \* the worker thread of each configured endpoint
  results,      \* mainThread: the local results
  mainPc,       \* position of mainThread
  poolOut,      \* mainThread: the local allRawProducts, results.flat()
  output,       \* mainThread: the lines on the console and the file summary.json
  taxonomy,     \* organizeCollections: COLLECTIONS, in the order of its entries
  product,      \* organizeCollections: the product handed to classifyProduct
  category,     \* organizeCollections: what classifyProduct returned
  raw,          \* processProduct: its argument
  normalized,   \* processProduct: how the call ended, and with what
  organizer,    \* organizeCollections: its files, its position and its locals
  filtering     \* filterProductsByPrice: its arguments and what it returned

cacheVars == <<cache, hitCount, missCount, cacheFile>>
localVars == <<endpoint, allProducts, page, hasMorePages, retries>>
vars == <<cache, hitCount, missCount, cacheFile, now, pc, endpoint, allProducts,
          page, hasMorePages, retries, direct, fallback, returned, attempts,
          delays, setLog, startFile, startTime, runs,
          op, calls, lastSet, workers, results, mainPc, poolOut, output,
          taxonomy, product, category, raw, normalized, organizer, filtering>>
runVars == <<pc, localVars, direct, fallback, returned, attempts, delays, setLog,
             startFile, startTime, runs>>
opsVars == <<op, calls, lastSet>>
poolVars == <<workers, results, mainPc, poolOut, output>>
pureVars == <<taxonomy, product, category, raw, normalized, organizer, filtering>>

\* the cache object of the current state
theCache ==
  [cache |-> cache, hitCount |-> hitCount, missCount |-> missCount,
   cacheFile |-> cacheFile]

\* the cache object of the next state
InstallCache(c) ==
  /\ cache' = c.cache
  /\ hitCount' = c.hitCount
  /\ missCount' = c.missCount
  /\ cacheFile' = c.cacheFile

\* the keys the cache is called with
Keys == {cacheKey(e) : e \in GoodEndpoints}

\* no call yet, and no set yet
noKey == <<>>
NoOp ==
  [name |-> "none", key |-> noKey, was |-> "none", value |-> null, found |-> FALSE,
   wrote |-> TRUE]
NoSet == [isSet |-> FALSE, cleared |-> FALSE, data |-> null, at |-> 0, ttl |-> 0]
NoSets == [k \in Keys |-> NoSet]

\* no set since the last clear
Cleared == [isSet |-> FALSE, cleared |-> TRUE, data |-> null, at |-> 0, ttl |-> 0]
AllCleared == [k \in Keys |-> Cleared]

\* a worker thread that has not been created
NoWorker ==
  [pc |-> "none", cache |-> [cache |-> EmptyMap, hitCount |-> 0, missCount |-> 0],
   products |-> <<>>, stored |-> FALSE, message |-> "none", delivered |-> FALSE]

\* mainThread has printed nothing and summary.json does not exist
NoOutput == [console |-> <<>>, summary |-> [exists |-> FALSE]]

\* nothing has run: no cache object, no paginator run, no call, no worker
Quiet ==
  /\ cache = EmptyMap
  /\ hitCount = 0
  /\ missCount = 0
  /\ pc = "idle"
  /\ endpoint = "none"
  /\ allProducts = <<>>
  /\ page = 1
  /\ hasMorePages = TRUE
  /\ retries = 0
  /\ direct = "none"
  /\ fallback = "none"
  /\ returned = <<>>
  /\ attempts = <<>>
  /\ delays = <<>>
  /\ setLog = <<>>
  /\ startFile = NoFile
  /\ startTime = 0
  /\ runs = 0
  /\ op = NoOp
  /\ calls = 0
  /\ lastSet = NoSets
  /\ workers = [e \in GoodEndpoints |-> NoWorker]
  /\ results = <<>>
  /\ mainPc = "start"
  /\ poolOut = <<>>
  /\ output = NoOutput
  /\ category = NoCategory
  /\ normalized = NotCalled

\* nothing is being classified or normalized
NoInputs ==
  /\ taxonomy = COLLECTIONS
  /\ product = NoProduct
  /\ raw = NoRaw
  /\ organizer = NotStarted
  /\ filtering = NotFiltering

Init ==
  /\ cacheFile = NoFile
  /\ now = 0
  /\ Quiet
  /\ NoInputs

(* --------------------------- processEndpoint --------------------------- *)
\* if (allProducts.length > 0), with a write for the empty aggregate too
ShouldCache_always(all) == Length(all) >= 0

\* if (allProducts.length > 0)
ShouldCache(all) == Length(all) > 0

\* log the count, cache the aggregate when it is not empty, return it
Finish(all, c, ok) ==
  /\ pc' = "done"
  /\ returned' = all
  /\ IF ShouldCache(all)
     THEN /\ InstallCache(set(c, cacheKey(endpoint), [products |-> all], CACHE_TTL, now', ok))
          /\ setLog' = Append(setLog, [key |-> cacheKey(endpoint), ttl |-> CACHE_TTL, at |-> now'])
     ELSE /\ InstallCache(c)
          /\ UNCHANGED setLog

\* let allProducts = [], page = 1, hasMorePages = true, retries = 0; a run
\* that returns or throws before these declarations leaves them at these values
NoLocals ==
  /\ allProducts' = <<>>
  /\ page' = 1
  /\ hasMorePages' = TRUE
  /\ retries' = 0

\* construct the cache, derive the key, look the aggregate up, initialise the loop
StartRun(e, ok) ==
  /\ pc \in {"idle", "done", "thrown"}
  /\ UNCHANGED <<opsVars, poolVars, pureVars>>
  /\ runs < MaxRuns
  /\ runs' = runs + 1
  /\ endpoint' = e
  /\ attempts' = <<>>
  /\ delays' = <<>>
  /\ setLog' = <<>>
  /\ direct' = "none"
  /\ fallback' = "none"
  /\ startFile' = cacheFile
  /\ startTime' = now
  /\ UNCHANGED now
  /\ IF ~UrlParses(e)
     THEN /\ pc' = "thrown"
          /\ returned' = <<>>
          /\ InstallCache(NewCache(cacheFile))
          /\ NoLocals
     ELSE LET c0 == NewCache(cacheFile)
              cachedData == getResult(c0, cacheKey(e), now)
          IN /\ InstallCache(get(c0, cacheKey(e), now, ok))
             /\ IF cachedData # null
                THEN /\ pc' = "done"
                     /\ returned' = cachedData.products
                     /\ NoLocals
                ELSE /\ pc' = "fetching"
                     /\ returned' = <<>>
                     /\ NoLocals

\* the while condition with one attempt too many
LoopContinues_offByOne(more, r) == more /\ r <= MAX_RETRIES

\* while (hasMorePages && retries < MAX_RETRIES)
LoopContinues(more, r) == more /\ r < MAX_RETRIES

\* the while condition, evaluated after a delay
LoopOrFinish(all, c, ok) ==
  IF LoopContinues(hasMorePages', retries')
  THEN /\ pc' = "fetching"
       /\ InstallCache(c)
       /\ UNCHANGED <<returned, setLog>>
  ELSE Finish(all, c, ok)

\* an exception of the try block that also moves to the next page
Catch_skipPage(c) ==
  /\ retries' = retries + 1
  /\ page' = page + 1
  /\ pc' = "retrying"
  /\ InstallCache(c)
  /\ UNCHANGED <<allProducts, hasMorePages, returned, setLog>>

\* catch: an exception of the try block is logged and counted
Catch(c) ==
  /\ retries' = retries + 1
  /\ pc' = "retrying"
  /\ InstallCache(c)
  /\ UNCHANGED <<allProducts, page, hasMorePages, returned, setLog>>

\* an empty page handled as a failed attempt
OnEmptyPage_retry(c, ok) == Catch(c)

\* if (products.length === 0) { hasMorePages = false; break; }
OnEmptyPage(c, ok) ==
  /\ hasMorePages' = FALSE
  /\ UNCHANGED <<allProducts, page, retries>>
  /\ Finish(allProducts, c, ok)

\* the last-page test with a full page counted as last
IsLastPage_inclusive(products) == Length(products) <= PAGE_LIMIT

\* the last-page test that never holds
IsLastPage_never(products) == Length(products) < 0

\* if (products.length < 250)
IsLastPage(products) == Length(products) < PAGE_LIMIT

\* the page result appended without the reset of retries
Accumulate_noReset(products, c, ok) ==
  IF Length(products) = 0
  THEN OnEmptyPage(c, ok)
  ELSE /\ allProducts' = allProducts \o products
       /\ UNCHANGED retries
       /\ IF IsLastPage(products)
          THEN /\ hasMorePages' = FALSE
               /\ UNCHANGED page
               /\ Finish(allProducts', c, ok)
          ELSE /\ page' = page + 1
               /\ pc' = "advancing"
               /\ InstallCache(c)
               /\ UNCHANGED <<hasMorePages, returned, setLog>>

\* the page result decides between stop, last page and next page
Accumulate(products, c, ok) ==
  IF Length(products) = 0
  THEN OnEmptyPage(c, ok)
  ELSE /\ allProducts' = allProducts \o products
       /\ retries' = 0
       /\ IF IsLastPage(products)
          THEN /\ hasMorePages' = FALSE
               /\ UNCHANGED page
               /\ Finish(allProducts', c, ok)
          ELSE /\ page' = page + 1
               /\ pc' = "advancing"
               /\ InstallCache(c)
               /\ UNCHANGED <<hasMorePages, returned, setLog>>

\* the ways the direct request can fail
DirectFailures == {"timeout", "http status", "parse error", "network error"}

\* the outcomes of the direct request: a failure, a 2xx body that is JSON
\* null, a 2xx body without products, with products that cannot be spread,
\* or with an array of products
DirectOutcomes ==
  DirectFailures \cup {"null body", "no products field", "not iterable", "products"}

\* one entry of the request history: the page asked for, whether the
\* attempt returned a page or threw, and the length of the page
Attempt(p, o, n) == [page |-> p, outcome |-> o, len |-> n]

\* build the url and issue the direct request
DirectRequest(d, n, ok) ==
  /\ pc = "fetching"
  /\ UNCHANGED <<opsVars, poolVars, pureVars>>
  /\ direct' = d
  /\ fallback' = "none"
  /\ UNCHANGED <<now, runs, endpoint, delays, startFile, startTime>>
  /\ CASE d = "products" ->
            /\ attempts' = Append(attempts, Attempt(page, "returned", n))
            /\ Accumulate(PageRecords(endpoint, page, n), theCache, ok)
       [] d = "no products field" ->
            /\ attempts' = Append(attempts, Attempt(page, "returned", 0))
            /\ Accumulate(<<>>, theCache, ok)
       [] d = "not iterable" ->
            /\ attempts' = Append(attempts, Attempt(page, "threw", 0))
            /\ Catch(theCache)
       [] OTHER ->
            /\ attempts' = Append(attempts, Attempt(page, "pending", 0))
            /\ pc' = "fallback"
            /\ UNCHANGED <<cacheVars, allProducts, page, hasMorePages, retries,
                           returned, setLog>>

\* the outcomes of fetchWithPuppeteer before browser.close()
FallbackOutcomes == {"launch failed", "error", "products"}

\* the request history with the outcome of the last entry filled in
Completed(o, n) ==
  [attempts EXCEPT ![Len(attempts)] = Attempt(@.page, o, n)]

\* the value fetchWithPuppeteer(url) resolves with when it does not throw
fetchWithPuppeteer(f, e, p, n) ==
  IF f = "error" THEN <<>> ELSE PageRecords(e, p, n)

\* fetchWithPuppeteer(url) and the rest of the try block of the loop
Fallback(f, n, closeOk, ok) ==
  /\ pc = "fallback"
  /\ UNCHANGED <<opsVars, poolVars, pureVars>>
  /\ UNCHANGED <<now, runs, endpoint, delays, startFile, startTime, direct>>
  /\ IF f = "launch failed"
     THEN /\ fallback' = f
          /\ attempts' = Completed("threw", 0)
          /\ Catch(theCache)
     ELSE IF closeOk
     THEN /\ fallback' = f
          /\ attempts' = Completed("returned", Length(fetchWithPuppeteer(f, endpoint, page, n)))
          /\ Accumulate(fetchWithPuppeteer(f, endpoint, page, n), theCache, ok)
     ELSE /\ fallback' = "close failed"
          /\ attempts' = Completed("threw", 0)
          /\ Catch(theCache)

\* the delay between two pages, which ends the loop iteration; the time it
\* takes passes in Tick steps
InterPageDelay(ok) ==
  /\ pc = "advancing"
  /\ UNCHANGED <<opsVars, poolVars, pureVars>>
  /\ now' = now
  /\ delays' = Append(delays, DELAY_BETWEEN_REQUESTS)
  /\ direct' = "none"
  /\ fallback' = "none"
  /\ UNCHANGED <<runs, endpoint, startFile, startTime, attempts,
                 allProducts, page, hasMorePages, retries>>
  /\ LoopOrFinish(allProducts, theCache, ok)

\* DELAY_BETWEEN_REQUESTS * 2
RetryDelayMs == DELAY_BETWEEN_REQUESTS * 2

\* the delay after a failed attempt with a promise that is never resolved
RetryDelay_unresolved(ok) ==
  /\ pc = "retrying"
  /\ UNCHANGED vars

\* the delay after a failed attempt, which ends the loop iteration; the time
\* it takes passes in Tick steps
RetryDelay(ok) ==
  /\ pc = "retrying"
  /\ UNCHANGED <<opsVars, poolVars, pureVars>>
  /\ now' = now
  /\ delays' = Append(delays, RetryDelayMs)
  /\ direct' = "none"
  /\ fallback' = "none"
  /\ UNCHANGED <<runs, endpoint, startFile, startTime, attempts,
                 allProducts, page, hasMorePages, retries>>
  /\ LoopOrFinish(allProducts, theCache, ok)

\* the amounts by which the clock advances between two steps
TickAmounts == {CACHE_TTL, CACHE_TTL + 1}

\* time passes
Tick(d) ==
  /\ now + d <= MaxClock
  /\ now' = now + d
  /\ op' = NoOp
  /\ UNCHANGED <<cacheVars, runVars, calls, lastSet, poolVars, pureVars>>

\* whether writeFileSync of saveCache succeeds
SaveOutcomes == BOOLEAN

Next ==
  \/ \E e \in Endpoints, ok \in SaveOutcomes : StartRun(e, ok)
  \/ \E d \in DirectOutcomes, n \in PageLens(page), ok \in SaveOutcomes :
        DirectRequest(d, n, ok)
  \/ \E f \in FallbackOutcomes, n \in PageLens(page), closeOk \in BOOLEAN,
        ok \in SaveOutcomes : Fallback(f, n, closeOk, ok)
  \/ \E ok \in SaveOutcomes : InterPageDelay(ok)
  \/ \E ok \in SaveOutcomes : RetryDelay(ok)
  \/ \E d \in TickAmounts : Tick(d)

Spec == Init /\ [][Next]_vars

\* one step of the loop of a run: a request that settles or a timer that fires
RunStep ==
  \/ \E d \in DirectOutcomes, n \in PageLens(page), ok \in SaveOutcomes :
        DirectRequest(d, n, ok)
  \/ \E f \in FallbackOutcomes, n \in PageLens(page), closeOk \in BOOLEAN,
        ok \in SaveOutcomes : Fallback(f, n, closeOk, ok)
  \/ \E ok \in SaveOutcomes : InterPageDelay(ok)
  \/ \E ok \in SaveOutcomes : RetryDelay(ok)

\* runs of processEndpoint, one after the other, within one cache lifetime
RunSpec ==
  Init /\ [][(\E e \in Endpoints, ok \in SaveOutcomes : StartRun(e, ok)) \/ RunStep]_vars

\* runs of processEndpoint on URLs of the same host and of hosts that differ
\* in one character, while time passes
KeySpec ==
  Init /\ [][\/ \E e \in GoodEndpoints \cup OtherEndpoints, ok \in SaveOutcomes :
                   StartRun(e, ok)
              \/ RunStep
              \/ \E d \in TickAmounts : Tick(d)]_vars

\* every awaited request settles and every timer fires: a run that can take
\* its next step takes it; nothing is assumed about new runs
RunLive == RunSpec /\ WF_vars(RunStep)

TypeOK ==
  /\ pc \in {"idle", "fetching", "fallback", "advancing", "retrying", "done", "thrown"}
  /\ retries \in 0..MAX_RETRIES
  /\ page \in 1..(MaxFullPages + 1)

(* ------------------ calls on one ResponseCache object ------------------ *)
\* The exported methods of the class, called in any order by one thread on the
\* object of the current state; a new object may replace it at any time.

\* the values stored: aggregates as processEndpoint stores them
Values == {[products |-> PageRecords(e, 1, ShortLen)] : e \in GoodEndpoints}

\* the ttl arguments: every caller passes 3600000, which is the default too
Ttls == {CACHE_TTL}

\* how get and has find the entry of key at time t
Lookup(c, key, t) ==
  IF ~MapHas(c.cache, key) THEN "missing"
  ELSE IF t > c.cache[MapIndex(c.cache, key)].expiry THEN "expired"
  ELSE "live"

\* the record of a call: what it found, what it returned, and whether every
\* write it made to the snapshot succeeded
Call(name, key, was, value, found, wrote) ==
  [name |-> name, key |-> key, was |-> was, value |-> value, found |-> found,
   wrote |-> wrote]

\* new ResponseCache()
NewOp ==
  /\ InstallCache(NewCache(cacheFile))
  /\ op' = Call("new", noKey, "none", null, FALSE, TRUE)
  /\ calls' = 0
  /\ lastSet' = NoSets
  /\ UNCHANGED <<now, runVars, poolVars, pureVars>>

\* cache.set(key, data, ttl)
SetOp(key, data, ttl, ok) ==
  /\ InstallCache(set(theCache, key, data, ttl, now, ok))
  /\ op' = Call("set", key, Lookup(theCache, key, now), null, FALSE, ok)
  /\ lastSet' = [lastSet EXCEPT ![key] =
                   [isSet |-> TRUE, cleared |-> FALSE, data |-> data, at |-> now,
                    ttl |-> ttl]]
  /\ UNCHANGED <<calls, now, runVars, poolVars, pureVars>>

\* cache.get(key)
GetOp(key, ok) ==
  /\ calls < MaxCalls
  /\ InstallCache(get(theCache, key, now, ok))
  /\ op' = Call("get", key, Lookup(theCache, key, now),
                getResult(theCache, key, now), FALSE,
                ok \/ Lookup(theCache, key, now) # "expired")
  /\ calls' = calls + 1
  /\ UNCHANGED <<lastSet, now, runVars, poolVars, pureVars>>

\* cache.has(key)
HasOp(key) ==
  /\ calls < MaxCalls
  /\ InstallCache(has(theCache, key, now))
  /\ op' = Call("has", key, Lookup(theCache, key, now), null,
                hasResult(theCache, key, now), TRUE)
  /\ calls' = calls + 1
  /\ UNCHANGED <<lastSet, now, runVars, poolVars, pureVars>>

\* cache.clear()
ClearOp(ok) ==
  /\ InstallCache(clear(theCache, ok))
  /\ op' = Call("clear", noKey, "none", null, FALSE, ok)
  /\ calls' = 0
  /\ lastSet' = AllCleared
  /\ UNCHANGED <<now, runVars, poolVars, pureVars>>

\* the files that are not snapshots
OtherFiles == {NoFile} \cup {Damaged(kind) : kind \in DamageKinds}

\* the snapshot file is removed, or replaced by something that is no snapshot
Overwrite(file) ==
  /\ cacheFile # file
  /\ cacheFile' = file
  /\ op' = Call("overwrite", noKey, "none", null, FALSE, TRUE)
  /\ UNCHANGED <<cache, hitCount, missCount, calls, lastSet, now, runVars, poolVars, pureVars>>

CacheNext ==
  \/ NewOp
  \/ \E key \in Keys, data \in Values, ttl \in Ttls, ok \in SaveOutcomes :
       SetOp(key, data, ttl, ok)
  \/ \E key \in Keys, ok \in SaveOutcomes : GetOp(key, ok)
  \/ \E key \in Keys : HasOp(key)
  \/ \E ok \in SaveOutcomes : ClearOp(ok)
  \/ \E d \in TickAmounts : Tick(d)

CacheSpec == Init /\ [][CacheNext]_vars

\* cache objects constructed from whatever the snapshot file holds: something
\* else may remove the file or replace it by a text that is no snapshot
SnapshotNext ==
  \/ NewOp
  \/ \E key \in Keys, data \in Values, ttl \in Ttls, ok \in SaveOutcomes :
       SetOp(key, data, ttl, ok)
  \/ \E file \in OtherFiles : Overwrite(file)

SnapshotSpec == Init /\ [][SnapshotNext]_vars

(* ------------------------ mainThread and workers ----------------------- *)
\* mainThread creates one Worker per entry of ENDPOINTS and waits for the exit
\* of all of them; each worker thread runs workerThread on its endpoint.  The
\* threads run in parallel and share only the snapshot file.  The page loop of
\* processEndpoint touches nothing shared and is one step here, with the
\* aggregate it ends with as its outcome.

\* the configured endpoints, in order
ENDPOINTS == <<"https://a.com/products.json", "https://b.com/products.json">>

\* Math.max(1, os.cpus().length / 2); the quotient is compared with counts of
\* workers only, so its integer part stands for it
MAX_WORKERS == IF Cpus \div 2 > 1 THEN Cpus \div 2 ELSE 1

\* the snapshot a run may find: none, or the one an earlier run left at time 0
PoolFiles ==
  {NoFile,
   set(NewCache(NoFile), cacheKey(ENDPOINTS[1]),
       [products |-> PageRecords(ENDPOINTS[1], 1, ShortLen)], CACHE_TTL, 0, TRUE).cacheFile}

\* the time of a run: that of the earlier run, or after its entry has expired
PoolTimes == {0, CACHE_TTL + 1}

PoolInit ==
  /\ cacheFile \in PoolFiles
  /\ now \in PoolTimes
  /\ Quiet
  /\ NoInputs

poolFrame == <<cache, hitCount, missCount, now, runVars, opsVars, pureVars>>

\* the cache object of a worker: its own fields, and the shared file
CacheOf(e) ==
  [cache |-> workers[e].cache.cache, hitCount |-> workers[e].cache.hitCount,
   missCount |-> workers[e].cache.missCount, cacheFile |-> cacheFile]

\* the fields of a cache object that belong to its thread
Private(c) == [cache |-> c.cache, hitCount |-> c.hitCount, missCount |-> c.missCount]

\* the position of an endpoint in ENDPOINTS
IndexOf(e) == CHOOSE i \in 1..Len(ENDPOINTS) : ENDPOINTS[i] = e

\* for (const endpoint of ENDPOINTS) new Worker(...): the next worker
Spawn(e) ==
  /\ mainPc = "start"
  /\ workers[e].pc = "none"
  /\ \A i \in 1..(IndexOf(e) - 1) : workers[ENDPOINTS[i]].pc # "none"
  /\ workers' = [workers EXCEPT ![e].pc = "created"]
  /\ mainPc' = IF IndexOf(e) = Len(ENDPOINTS) THEN "waiting" ELSE "start"
  /\ UNCHANGED <<results, poolOut, output, cacheFile, poolFrame>>

\* processEndpoint: new ResponseCache()
WorkerLoad(e) ==
  /\ workers[e].pc = "created"
  /\ workers' = [workers EXCEPT ![e].pc = "loaded",
                                ![e].cache = Private(NewCache(cacheFile))]
  /\ UNCHANGED <<results, mainPc, poolOut, output, cacheFile, poolFrame>>

\* processEndpoint: cache.get(cacheKey), and the return of a cached aggregate
WorkerGet(e, ok) ==
  /\ workers[e].pc = "loaded"
  /\ LET cachedData == getResult(CacheOf(e), cacheKey(e), now)
         c == get(CacheOf(e), cacheKey(e), now, ok)
     IN /\ cacheFile' = c.cacheFile
        /\ workers' =
             [workers EXCEPT
                ![e].cache = Private(c),
                ![e].pc = IF cachedData # null THEN "returned" ELSE "fetching",
                ![e].products = IF cachedData # null THEN cachedData.products ELSE <<>>]
  /\ UNCHANGED <<results, mainPc, poolOut, output, poolFrame>>

\* an aggregate that puts every page in front of the pages fetched before it
Aggregates_newestFirst(e) ==
  {<<>>} \cup
  {PageRecords(e, k + 1, ShortLen) \o
     [p \in 1..k |-> Slice(e, k + 1 - p, PAGE_LIMIT)] : k \in 0..MaxFullPages}

\* the aggregates the page loop may end with: nothing, or some full pages
\* followed by a short last page, appended in the order they were fetched
Aggregates(e) ==
  {<<>>} \cup
  {[p \in 1..k |-> Slice(e, p, PAGE_LIMIT)] \o PageRecords(e, k + 1, ShortLen) :
     k \in 0..MaxFullPages}

\* processEndpoint: the page loop, cache.set of a non-empty aggregate, return
WorkerFetch(e, all, ok) ==
  /\ workers[e].pc = "fetching"
  /\ LET c == IF ShouldCache(all)
               THEN set(CacheOf(e), cacheKey(e), [products |-> all], CACHE_TTL, now, ok)
               ELSE CacheOf(e)
     IN /\ cacheFile' = c.cacheFile
        /\ workers' = [workers EXCEPT ![e].cache = Private(c),
                                      ![e].pc = "returned",
                                      ![e].products = all,
                                      ![e].stored = ShouldCache(all) /\ ok]
  /\ UNCHANGED <<results, mainPc, poolOut, output, poolFrame>>

\* workerThread: write the file of the endpoint and post the result, or post
\* the error when the write throws
WorkerPost(e, written) ==
  /\ workers[e].pc = "returned"
  /\ workers' = [workers EXCEPT ![e].pc = "posted",
                                ![e].message = IF written THEN "result" ELSE "error"]
  /\ UNCHANGED <<results, mainPc, poolOut, output, cacheFile, poolFrame>>

\* a delivery that does not look at what was delivered before
Deliver_again(w, res) ==
  IF w.message = "result" THEN Append(res, w.products) ELSE res

\* worker.on("message"): results.push(message.data) for a result message
Deliver(w, res) ==
  IF w.message = "result" /\ ~w.delivered THEN Append(res, w.products) ELSE res

\* the message of a live worker reaches mainThread
OnMessage(e) ==
  /\ workers[e].pc = "posted"
  /\ ~workers[e].delivered
  /\ results' = Deliver(workers[e], results)
  /\ workers' = [workers EXCEPT ![e].delivered = TRUE]
  /\ UNCHANGED <<mainPc, poolOut, output, cacheFile, poolFrame>>

\* the thread ends: a message still in its port is delivered, then "exit"
\* is emitted
WorkerExit(e) ==
  /\ workers[e].pc = "posted"
  /\ results' = Deliver(workers[e], results)
  /\ workers' = [workers EXCEPT ![e].pc = "exited", ![e].delivered = TRUE]
  /\ UNCHANGED <<mainPc, poolOut, output, cacheFile, poolFrame>>

\* results.flat()
RECURSIVE Flat(_)
Flat(res) == IF res = <<>> THEN <<>> ELSE Head(res) \o Flat(Tail(res))

\* a join that waits for a result message of every worker
AllExited_withResult ==
  \A e \in GoodEndpoints : workers[e].pc = "exited" /\ workers[e].message = "result"

\* Promise.all over the "exit" events of all workers
AllExited == \A e \in GoodEndpoints : workers[e].pc = "exited"

\* await Promise.all(exits), then const allRawProducts = results.flat()
MainCollect ==
  /\ mainPc = "waiting"
  /\ AllExited
  /\ mainPc' = "done"
  /\ poolOut' = Flat(results)
  /\ UNCHANGED <<workers, results, output, cacheFile, poolFrame>>

\* the price processProduct derives for the records of an endpoint: the
\* catalog of the first endpoint is priced at the threshold, the other
\* catalogs just below it
CatalogPrice(e) == IF EndpointNo(e) = 1 THEN MINIMUM_PRICE ELSE MINIMUM_PRICE - 1

\* the filter with productPrice > minPrice
filterProductsByPrice_above(products, minPrice) ==
  LET price(p) == IF "price" \in DOMAIN p THEN p.price ELSE Num(CatalogPrice(p.endpoint) * 100)
      productPrice(p) == IF Truthy(price(p)) THEN price(p) ELSE Num(0)
      Keeps(p) == productPrice(p).n > minPrice * 100
  IN SelectSeq(products, Keeps)

\* filterProductsByPrice: products.filter(product => (product.price || 0) >= minPrice).
\* A product is a record with its price, a number in hundredths; a slice
\* stands for records that all have the catalog price of their endpoint.
\* minPrice is in whole units.
filterProductsByPrice(products, minPrice) ==
  LET price(p) == IF "price" \in DOMAIN p THEN p.price ELSE Num(CatalogPrice(p.endpoint) * 100)
      productPrice(p) == IF Truthy(price(p)) THEN price(p) ELSE Num(0)
      Keeps(p) == productPrice(p).n >= minPrice * 100
  IN SelectSeq(products, Keeps)

\* const summary = {...}, the fields that count products
Summary(all, filtered) ==
  [exists |-> TRUE,
   total_products_fetched |-> Length(all),
   total_products_after_filter |-> Length(filtered),
   products_filtered_out |-> Length(all) - Length(filtered),
   minimum_price_threshold |-> MINIMUM_PRICE,
   workers_used |-> MAX_WORKERS]

\* mainThread from console.log of the total to its end.  allRawProducts.map(
\* processProduct) keeps the number and the order of the records; written
\* tells whether the files of classifyAndWriteProducts and summary.json could
\* be written: if not, writeFileSync throws and mainThread rejects.
MainReport(written) ==
  /\ mainPc = "done"
  /\ LET processed == poolOut
         filteredProducts == filterProductsByPrice(processed, MINIMUM_PRICE)
         total == <<"Total products fetched", Length(poolOut)>>
         out == <<"Filtered out", Length(processed) - Length(filteredProducts)>>
         classified == <<"Products classified and written to files">>
         nothingRemained == <<"No products remained after price filtering">>
         nothingFetched == <<"No products were fetched">>
     IN IF Length(poolOut) > 0
        THEN IF Length(filteredProducts) > 0
             THEN IF written
                  THEN /\ output' = [console |-> <<total, out, classified>>,
                                     summary |-> Summary(processed, filteredProducts)]
                       /\ mainPc' = "ended"
                  ELSE /\ output' = [console |-> <<total, out>>, summary |-> NoOutput.summary]
                       /\ mainPc' = "rejected"
             ELSE /\ output' = [console |-> <<total, out, nothingRemained>>,
                                summary |-> NoOutput.summary]
                  /\ mainPc' = "ended"
        ELSE /\ output' = [console |-> <<total, nothingFetched>>,
                           summary |-> NoOutput.summary]
             /\ mainPc' = "ended"
  /\ UNCHANGED <<workers, results, poolOut, cacheFile, poolFrame>>

PoolNext ==
  \/ \E e \in GoodEndpoints : Spawn(e)
  \/ \E e \in GoodEndpoints : WorkerLoad(e)
  \/ \E e \in GoodEndpoints, ok \in SaveOutcomes : WorkerGet(e, ok)
  \/ \E e \in GoodEndpoints, ok \in SaveOutcomes :
       \E all \in Aggregates(e) : WorkerFetch(e, all, ok)
  \/ \E e \in GoodEndpoints, written \in BOOLEAN : WorkerPost(e, written)
  \/ \E e \in GoodEndpoints : OnMessage(e)
  \/ \E e \in GoodEndpoints : WorkerExit(e)
  \/ MainCollect
  \/ \E written \in BOOLEAN : MainReport(written)

PoolSpec == PoolInit /\ [][PoolNext]_vars

\* the threads and the event loop of mainThread keep running: a step that
\* stays possible is taken
PoolLive == PoolSpec /\ WF_vars(PoolNext)

(* --------------------------- classifyProduct --------------------------- *)
\* the classes \s and \w of the characters that occur
IsSpace(ch) == ch = " "
IsWordChar(ch) == ch \notin {" ", "-", "!", ","}

\* replace(/[^\w\s]/g, ' ')
PunctuationToSpace(text) ==
  [i \in 1..Len(text) |-> IF IsWordChar(text[i]) \/ IsSpace(text[i]) THEN text[i] ELSE " "]

\* replace(/\s+/g, ' ')
RECURSIVE CollapseSpaces(_)
CollapseSpaces(text) ==
  IF text = <<>> THEN <<>>
  ELSE LET rest == CollapseSpaces(Tail(text))
       IN IF IsSpace(Head(text))
          THEN IF rest # <<>> /\ IsSpace(Head(rest)) THEN rest ELSE <<" ">> \o rest
          ELSE <<Head(text)>> \o rest

\* String.prototype.trim
RECURSIVE trim(_)
trim(text) ==
  IF text = <<>> THEN <<>>
  ELSE IF IsSpace(Head(text)) THEN trim(Tail(text))
  ELSE IF IsSpace(text[Len(text)]) THEN trim(SubSeq(text, 1, Len(text) - 1))
  ELSE text

\* normalizeText
normalizeText(text) == trim(CollapseSpaces(PunctuationToSpace(toLowerCase(text))))

\* String.prototype.split(' ')
RECURSIVE split(_)
split(text) ==
  IF \A i \in 1..Len(text) : text[i] # " " THEN <<text>>
  ELSE LET at == CHOOSE i \in 1..Len(text) :
                   text[i] = " " /\ \A j \in 1..(i - 1) : text[j] # " "
       IN <<SubSeq(text, 1, at - 1)>> \o split(SubSeq(text, at + 1, Len(text)))

\* Array.prototype.join(' ') of an array of texts
RECURSIVE join(_)
join(parts) ==
  IF parts = <<>> THEN <<>>
  ELSE IF Len(parts) = 1 THEN parts[1]
  ELSE parts[1] \o <<" ">> \o join(Tail(parts))

\* the text join puts for an element: nothing for undefined and null
TextOf(v) == IF TypeOf(v) = "string" THEN v.s ELSE <<>>

\* v || ''
OrEmpty(v) == IF Truthy(v) THEN v ELSE Str(<<>>)

\* createLookupMaps: keywordToCollections.get(word), the names pushed for the
\* keyword in the order of the entries; nothing pushed stands for undefined
RECURSIVE keywordToCollections(_, _)
keywordToCollections(tax, word) ==
  IF tax = <<>> THEN <<>>
  ELSE LET IsWord(k) == toLowerCase(k) = word
           pushed == SelectSeq(Head(tax).keywords, IsWord)
       IN [i \in 1..Len(pushed) |-> Head(tax).name] \o
          keywordToCollections(Tail(tax), word)

\* createLookupMaps: collectionPriorities.get(collection)
collectionPriorities(tax, collection) ==
  LET at == CHOOSE i \in 1..Len(tax) :
              tax[i].name = collection /\ \A j \in (i + 1)..Len(tax) : tax[j].name # collection
  IN tax[at].priority

\* matches.set(collection, (matches.get(collection) || 0) + 1), on the Map
\* matches as the sequence of its [collection, score] entries
Bump(matches, collection) ==
  IF \E i \in 1..Len(matches) : matches[i].collection = collection
  THEN [i \in 1..Len(matches) |->
          IF matches[i].collection = collection
          THEN [matches[i] EXCEPT !.score = @ + 1]
          ELSE matches[i]]
  ELSE Append(matches, [collection |-> collection, score |-> 1])

\* collections.forEach(...)
RECURSIVE BumpAll(_, _)
BumpAll(matches, collections) ==
  IF collections = <<>> THEN matches
  ELSE BumpAll(Bump(matches, Head(collections)), Tail(collections))

\* for (const word of words) ...
RECURSIVE CountMatches(_, _, _)
CountMatches(words, tax, matches) ==
  IF words = <<>> THEN matches
  ELSE CountMatches(Tail(words), tax,
                    BumpAll(matches, keywordToCollections(tax, Head(words))))

\* a best match that a single match does not beat
NoBest_needsTwo == [collection |-> "uncategorized", score |-> 1, priority |-> 99]

\* let bestCollection = 'uncategorized'; let bestScore = 0; let bestPriority = 99
NoBest == [collection |-> "uncategorized", score |-> 0, priority |-> 99]

\* a comparison that leaves ties to the first match
Better_firstWins(score, priority, best) == score > best.score

\* score > bestScore || (score === bestScore && priority < bestPriority)
Better(score, priority, best) ==
  score > best.score \/ (score = best.score /\ priority < best.priority)

\* for (const [collection, score] of matches) ...
RECURSIVE PickBest(_, _, _)
PickBest(matches, tax, best) ==
  IF matches = <<>> THEN best
  ELSE LET m == Head(matches)
           configured == collectionPriorities(tax, m.collection)
           priority == IF configured = 0 THEN 99 ELSE configured
       IN PickBest(Tail(matches), tax,
                   IF Better(m.score, priority, best)
                   THEN [collection |-> m.collection, score |-> m.score,
                         priority |-> priority]
                   ELSE best)

findBestMatchingCollection(productText, tax) ==
  PickBest(CountMatches(split(productText), tax, <<>>), tax, NoBest).collection

\* the text classifyProduct builds from the fields of a product
ProductText(p) ==
  join(<<TextOf(OrEmpty(p.product_type)),
         TextOf(OrEmpty(p.title)),
         TextOf(OrEmpty(p.vendor)),
         IF TypeOf(p.tags) = "array"
         THEN join([i \in 1..Len(p.tags.a) |-> TextOf(p.tags.a[i])])
         ELSE <<>>,
         TextOf(OrEmpty(p.category))>>)

classifyProduct(p, tax) == findBestMatchingCollection(normalizeText(ProductText(p)), tax)

\* the products handed to classifyProduct
Products ==
  [product_type : {undefined, Str(<<>>)},
   title : {undefined, Str(<<>>), Str(Words.Hat),
            Str(Words.bath \o <<" ">> \o Words.hat),
            Str(Words.hat \o <<" ">> \o Words.bath),
            Str(Words.hat \o <<" ">> \o Words.hat \o <<" ">> \o Words.bath),
            Str(Words.tshirt), Str(Words.giftcard), Str(Words.bath \o Words.hat),
            Str(Words.Hat \o <<"!", " ", " ">> \o Words.BATH)},
   vendor : {undefined},
   tags : {undefined, Str(Words.hat \o <<",", " ">> \o Words.bath),
           Arr(<<Str(Words.bath), Str(Words.Hat)>>)},
   category : {undefined, Str(Words.BATH)}]

\* the orders COLLECTIONS may list its entries in
Orders ==
  {o \in [1..Len(COLLECTIONS) -> 1..Len(COLLECTIONS)] :
     \A i, j \in 1..Len(COLLECTIONS) : o[i] = o[j] => i = j}
Reordered(tax, o) == [i \in 1..Len(tax) |-> tax[o[i]]]

\* the priorities COLLECTIONS may configure: those it has, or 0 for one entry
Reprioritized(tax, zero) ==
  [i \in 1..Len(tax) |-> IF i = zero THEN [tax[i] EXCEPT !.priority = 0] ELSE tax[i]]
Taxonomies ==
  {Reordered(Reprioritized(COLLECTIONS, zero), o) :
     zero \in 0..(Len(COLLECTIONS) - 1), o \in Orders}

\* a product of the input files and a taxonomy; nothing else runs
ClassifyInit ==
  /\ cacheFile = NoFile
  /\ now = 0
  /\ Quiet
  /\ taxonomy \in Taxonomies
  /\ product \in Products
  /\ raw = NoRaw
  /\ organizer = NotStarted
  /\ filtering = NotFiltering

\* organizeCollections: const collection = classifyProduct(product)
Classify ==
  /\ category = NoCategory
  /\ category' = classifyProduct(product, taxonomy)
  /\ UNCHANGED <<cacheVars, now, runVars, opsVars, poolVars, taxonomy, product, raw,
                 normalized, organizer, filtering>>

ClassifySpec == ClassifyInit /\ [][Classify]_vars

(* ---------------------------- processProduct --------------------------- *)
\* the digits, and the value of a digit
DigitOf(d) == <<"0", "1", "2", "3", "4", "5", "6", "7", "8", "9">>[d + 1]
DigitValue(ch) == CHOOSE d \in 0..9 : DigitOf(d) = ch

\* the number of digits a text starts with
RECURSIVE LeadingDigits(_)
LeadingDigits(text) ==
  IF text = <<>> \/ Head(text) \notin {DigitOf(d) : d \in 0..9} THEN 0
  ELSE 1 + LeadingDigits(Tail(text))

\* the value of a text of digits
RECURSIVE ValueOf(_)
ValueOf(digits) ==
  IF digits = <<>> THEN 0
  ELSE ValueOf(SubSeq(digits, 1, Len(digits) - 1)) * 10 + DigitValue(digits[Len(digits)])

\* the decimal digits of a natural number
RECURSIVE DigitsOf(_)
DigitsOf(n) == IF n < 10 THEN <<DigitOf(n)>> ELSE DigitsOf(n \div 10) \o <<DigitOf(n % 10)>>

\* String(v): the text of a value
String(v) ==
  CASE TypeOf(v) = "string" -> v.s
    [] TypeOf(v) = "undefined" -> <<"u", "n", "d", "e", "f", "i", "n", "e", "d">>
    [] TypeOf(v) = "null" -> <<"n", "u", "l", "l">>
    [] TypeOf(v) = "number" ->
         IF v.nan THEN <<"N", "a", "N">>
         ELSE LET abs == IF v.n < 0 THEN -v.n ELSE v.n
                  cents == abs % 100
              IN (IF v.n < 0 THEN <<"-">> ELSE <<>>) \o DigitsOf(abs \div 100) \o
                 (IF cents = 0 THEN <<>>
                  ELSE IF cents % 10 = 0 THEN <<".", DigitOf(cents \div 10)>>
                  ELSE <<".", DigitOf(cents \div 10), DigitOf(cents % 10)>>)

\* parseFloat(v), of the text of v: leading blanks, a sign, digits, a fraction; what
\* follows is ignored, and a text with no digit there gives NaN.  The texts
\* here have at most two digits in the fraction.
parseFloat(v) ==
  LET t == trim(String(v))
      signed == t # <<>> /\ Head(t) \in {"-", "+"}
      u == IF signed THEN Tail(t) ELSE t
      ni == LeadingDigits(u)
      rest == SubSeq(u, ni + 1, Len(u))
      fraction == IF rest # <<>> /\ Head(rest) = "." THEN Tail(rest) ELSE <<>>
      nf == LeadingDigits(fraction)
      hundredths == IF nf = 0 THEN 0
                    ELSE IF nf = 1 THEN DigitValue(fraction[1]) * 10
                    ELSE DigitValue(fraction[1]) * 10 + DigitValue(fraction[2])
      magnitude == ValueOf(SubSeq(u, 1, ni)) * 100 + hundredths
  IN IF ni + nf = 0 THEN NaN
     ELSE Num(IF signed /\ Head(t) = "-" THEN -magnitude ELSE magnitude)

\* String.prototype.split(', ')
RECURSIVE splitCommaSpace(_)
splitCommaSpace(text) ==
  LET IsSeparator(i) == text[i] = "," /\ text[i + 1] = " "
  IN IF \A i \in 1..(Len(text) - 1) : ~IsSeparator(i) THEN <<Str(text)>>
     ELSE LET at == CHOOSE i \in 1..(Len(text) - 1) :
                      IsSeparator(i) /\ \A j \in 1..(i - 1) : ~IsSeparator(j)
          IN <<Str(SubSeq(text, 1, at - 1))>> \o
             splitCommaSpace(SubSeq(text, at + 2, Len(text)))

\* the first of the numbers
Min_first(numbers) == numbers[1].n

\* Math.min(...numbers) of a non-empty array of numbers
Min(numbers) ==
  CHOOSE m \in {numbers[i].n : i \in 1..Len(numbers)} :
    \A i \in 1..Len(numbers) : m <= numbers[i].n

\* product.variants || [], product.images || []
OrEmptyArray(v) == IF Truthy(v) THEN v.a ELSE <<>>

\* variants.map(v => parseFloat(v.price)).filter(p => !isNaN(p))
prices(variants) ==
  LET NotNaN(p) == ~p.nan
  IN SelectSeq([i \in 1..Len(variants) |-> parseFloat(variants[i].price)], NotNaN)

\* variants.map(v => v.compare_at_price ? parseFloat(v.compare_at_price) : undefined)
\*         .filter(p => p !== undefined && !isNaN(p))
comparePrices(variants) ==
  LET Mapped(i) == IF Truthy(variants[i].compare_at_price)
                   THEN parseFloat(variants[i].compare_at_price)
                   ELSE undefined
      Kept(p) == p # undefined /\ ~p.nan
  IN SelectSeq([i \in 1..Len(variants) |-> Mapped(i)], Kept)

\* prices.length > 0 ? Math.min(...prices) : undefined
MinOrUndefined(numbers) == IF Len(numbers) > 0 THEN Num(Min(numbers)) ELSE undefined

\* what a call ends with
Returned(value) == [ended |-> "returned", value |-> value]
Threw(error) == [ended |-> "threw", error |-> error]

\* the fields processProduct derives from the variants and the images
Derived(p, tags) ==
  LET variants == OrEmptyArray(p.variants)
      images == OrEmptyArray(p.images)
  IN [variants |-> p.variants,
      images |-> p.images,
      tags |-> tags,
      price |-> MinOrUndefined(prices(variants)),
      compare_at_price |-> MinOrUndefined(comparePrices(variants)),
      images_count |-> Len(images),
      variants_count |-> Len(variants),
      status |-> IF Truthy(p.status) THEN p.status ELSE Str(<<"a", "c", "t", "i", "v", "e">>),
      availability |-> IF \E i \in 1..Len(variants) : variants[i].available
                       THEN "in stock" ELSE "out of stock",
      condition |-> "new"]

\* utils/processProduct.ts.  tags: Array.isArray(product.tags) ? product.tags
\* : product.tags?.split(', ') || []: on a value that is not undefined, null
\* or a string, split is undefined and the call throws a TypeError
processProduct(p) ==
  CASE TypeOf(p.tags) = "array" -> Returned(Derived(p, p.tags))
    [] TypeOf(p.tags) \in {"undefined", "null"} -> Returned(Derived(p, Arr(<<>>)))
    [] TypeOf(p.tags) = "string" -> Returned(Derived(p, Arr(splitCommaSpace(p.tags.s))))
    [] OTHER -> Threw("TypeError")

\* the copy of processProduct in the worker program.  tags:
\* Array.isArray(product.tags) ? product.tags
\* : String(product.tags || "").split(", ") || []
processProductOfWorker(p) ==
  IF TypeOf(p.tags) = "array" THEN Returned(Derived(p, p.tags))
  ELSE Returned(Derived(p, Arr(splitCommaSpace(String(OrEmpty(p.tags))))))

\* the raw records: what a source may put in the fields of a product
Variant(price, compare) == [price |-> price, compare_at_price |-> compare, available |-> FALSE]
RawVariants ==
  {Variant(Str(<<"1", "9", ".", "9", "9">>), null),
   Variant(Str(<<"a", "b", "c">>), Str(<<"a", "b", "c">>)),
   Variant(Str(<<"1", "5", ".", "0", "0">>), Str(<<"2", "5", ".", "0", "0">>)),
   Variant(Str(<<"-", "5">>), Str(<<"2", "0">>)),
   Variant(Num(1999), Str(<<>>)),
   [Variant(undefined, undefined) EXCEPT !.available = TRUE]}
RECURSIVE VariantLists(_)
VariantLists(n) ==
  IF n = 0 THEN {<<>>}
  ELSE VariantLists(n - 1) \cup
       {Append(l, v) : l \in {k \in VariantLists(n - 1) : Len(k) = n - 1}, v \in RawVariants}
RawRecords ==
  [variants : {undefined} \cup {Arr(l) : l \in VariantLists(MaxVariants)},
   images : {undefined, Arr(<<[src |-> "1.png"]>>)},
   tags : {undefined, null, Str(<<>>), Str(Words.a \o <<",", " ">> \o Words.b),
           Arr(<<Str(Words.a), Str(Words.b)>>), Arr(<<>>), Num(500)},
   status : {undefined}]

\* a raw record; nothing else runs
NormalizeInit ==
  /\ cacheFile = NoFile
  /\ now = 0
  /\ Quiet
  /\ taxonomy = COLLECTIONS
  /\ product = NoProduct
  /\ raw \in RawRecords
  /\ organizer = NotStarted
  /\ filtering = NotFiltering

\* a call of processProduct of utils/processProduct.ts on the record
Normalize ==
  /\ normalized = NotCalled
  /\ normalized' = [by |-> "utils/processProduct.ts", outcome |-> processProduct(raw)]
  /\ UNCHANGED <<cacheVars, now, runVars, opsVars, poolVars, taxonomy, product, category,
                 raw, organizer, filtering>>

\* a call of the worker program's processProduct on the record
NormalizeInWorker ==
  /\ normalized = NotCalled
  /\ normalized' = [by |-> "worker program", outcome |-> processProductOfWorker(raw)]
  /\ UNCHANGED <<cacheVars, now, runVars, opsVars, poolVars, taxonomy, product, category,
                 raw, organizer, filtering>>

NormalizeNext == Normalize \/ NormalizeInWorker

NormalizeSpec == NormalizeInit /\ [][NormalizeNext]_vars

(* ------------------------- organizeCollections ------------------------- *)
\* the .json files of INPUT_DIR, as JSON.parse reads them: an array, a value
\* that is not an array, or a text that JSON.parse rejects; one or two files
\* with at most MaxProducts elements in all. The elements of the arrays are
\* products with a title and no other text, and JSON nulls.
InputFiles ==
  LET Elements ==
        {[product_type |-> undefined, title |-> Str(title), vendor |-> undefined,
          tags |-> undefined, category |-> undefined] :
           title \in {Words.hat, Words.Hat, Words.bath, Words.giftcard}} \cup {null}
      contents == {Arr(a) : a \in UNION {[1..k -> Elements] : k \in 0..MaxProducts}}
                    \cup {null, [t |-> "not JSON"]}
      size(f) == IF TypeOf(f) = "array" THEN Len(f.a) ELSE 0
  IN {<<f>> : f \in contents} \cup
     {<<pair[1], pair[2]>> :
        pair \in {fg \in contents \X contents : size(fg[1]) + size(fg[2]) <= MaxProducts}}

\* organizeCollections up to the loop over the files
OrganizeInit ==
  /\ cacheFile = NoFile
  /\ now = 0
  /\ Quiet
  /\ taxonomy = COLLECTIONS
  /\ product = NoProduct
  /\ raw = NoRaw
  /\ filtering = NotFiltering
  /\ \E files \in InputFiles :
        organizer = [pc |-> "file", files |-> files, file |-> 1, i |-> 1,
                     classifiedProducts |-> <<>>, unclassifiedProducts |-> <<>>,
                     collectionStats |-> <<>>, totalProducts |-> 0,
                     written |-> [exists |-> FALSE]]

\* what organizeCollections leaves alone
organizeFrame ==
  <<cacheVars, now, runVars, opsVars, poolVars, taxonomy, product, category, raw,
    normalized, filtering>>

\* read and parse the next file; a file that is not an array of products, or
\* an empty one, is passed over
OpenFile ==
  /\ organizer.pc = "file"
  /\ organizer.file <= Len(organizer.files)
  /\ LET content == organizer.files[organizer.file]
     IN organizer' = IF TypeOf(content) = "array" /\ Len(content.a) > 0
                     THEN [organizer EXCEPT !.pc = "products", !.i = 1]
                     ELSE [organizer EXCEPT !.file = @ + 1]
  /\ UNCHANGED organizeFrame

\* the locals after a classified product, without the push to unclassifiedProducts
Placed_forgetsUnclassified(o, p, collection) ==
  LET entryOf(entries) == CHOOSE k \in 1..Len(entries) : entries[k].collection = collection
      listed(entries) == \E k \in 1..Len(entries) : entries[k].collection = collection
  IN [o EXCEPT
        !.classifiedProducts =
           IF listed(@) THEN [@ EXCEPT ![entryOf(@)].products = Append(@, p)]
           ELSE Append(@, [collection |-> collection, products |-> <<p>>]),
        !.collectionStats =
           IF listed(@) THEN [@ EXCEPT ![entryOf(@)].count = @ + 1]
           ELSE Append(@, [collection |-> collection, count |-> 1]),
        !.totalProducts = @ + 1]

\* the locals after a classified product: pushed to the list of its
\* collection, counted, and pushed to unclassifiedProducts when uncategorized
Placed(o, p, collection) ==
  LET entryOf(entries) == CHOOSE k \in 1..Len(entries) : entries[k].collection = collection
      listed(entries) == \E k \in 1..Len(entries) : entries[k].collection = collection
  IN [o EXCEPT
        !.classifiedProducts =
           IF listed(@) THEN [@ EXCEPT ![entryOf(@)].products = Append(@, p)]
           ELSE Append(@, [collection |-> collection, products |-> <<p>>]),
        !.collectionStats =
           IF listed(@) THEN [@ EXCEPT ![entryOf(@)].count = @ + 1]
           ELSE Append(@, [collection |-> collection, count |-> 1]),
        !.totalProducts = @ + 1,
        !.unclassifiedProducts = IF collection = "uncategorized" THEN Append(@, p) ELSE @]

\* one turn of the loop over the products of a file: classifyProduct throws
\* a TypeError on null, which the catch block logs
PlaceProduct ==
  /\ organizer.pc = "products"
  /\ LET p == organizer.files[organizer.file].a[organizer.i]
         after == IF p = null THEN organizer
                  ELSE Placed(organizer, p, classifyProduct(p, taxonomy))
     IN organizer' = IF organizer.i < Len(organizer.files[organizer.file].a)
                     THEN [after EXCEPT !.i = @ + 1]
                     ELSE [after EXCEPT !.pc = "file", !.file = @ + 1, !.i = 1]
  /\ UNCHANGED organizeFrame

\* after the last file: one products.json per collection, each write in its
\* own try block, then unclassified.json outside any try block
WriteCollections(collectionsOk, unclassifiedOk) ==
  /\ organizer.pc = "file"
  /\ organizer.file > Len(organizer.files)
  /\ LET unclassified == organizer.unclassifiedProducts
     IN organizer' =
          [organizer EXCEPT
             !.pc = IF Len(unclassified) > 0 /\ ~unclassifiedOk THEN "rejected" ELSE "done",
             !.written =
                [exists |-> TRUE,
                 collections |-> IF collectionsOk THEN organizer.classifiedProducts ELSE <<>>,
                 unclassified |-> IF Len(unclassified) > 0 /\ unclassifiedOk
                                  THEN Arr(unclassified) ELSE undefined]]
  /\ UNCHANGED organizeFrame

OrganizeNext ==
  \/ OpenFile
  \/ PlaceProduct
  \/ \E collectionsOk \in BOOLEAN, unclassifiedOk \in BOOLEAN :
        WriteCollections(collectionsOk, unclassifiedOk)

OrganizeSpec == OrganizeInit /\ [][OrganizeNext]_vars

(* ------------------------ filterProductsByPrice ------------------------ *)
\* an array of processed products, each with its id and the price
\* processProduct derived (absent, or a number in hundredths), and a threshold
FilterInit ==
  /\ cacheFile = NoFile
  /\ now = 0
  /\ Quiet
  /\ taxonomy = COLLECTIONS
  /\ product = NoProduct
  /\ raw = NoRaw
  /\ organizer = NotStarted
  /\ \E n \in 0..MaxProducts, minPrice \in {0, MINIMUM_PRICE} :
        \E priced \in [1..n -> {undefined, Num(0), Num(-100), Num(2499), Num(2500), Num(9900)}] :
           filtering = [called |-> FALSE,
                        products |-> [k \in 1..n |-> [id |-> k, price |-> priced[k]]],
                        minPrice |-> minPrice]

\* a call of filterProductsByPrice: the filter, the line on the console, the return
Filter ==
  /\ ~filtering.called
  /\ LET filteredProducts == filterProductsByPrice(filtering.products, filtering.minPrice)
     IN filtering' =
          [called |-> TRUE,
           products |-> filtering.products,
           minPrice |-> filtering.minPrice,
           console |-> <<"Filtered out", Len(filtering.products) - Len(filteredProducts),
                         "products with price <", filtering.minPrice>>,
           returned |-> filteredProducts]
  /\ UNCHANGED <<cacheVars, now, runVars, opsVars, poolVars, taxonomy, product, category,
                 raw, normalized, organizer>>

FilterSpec == FilterInit /\ [][Filter]_vars

(* ============================== claims ================================= *)
\* the last entry of the request history
LastAttempt == attempts[Len(attempts)]

\* this step completes a page request (its outcome becomes known)
Completes(o) ==
  /\ attempts' # <<>>
  /\ attempts'[Len(attempts')].outcome = o
  /\ \/ Len(attempts') = Len(attempts) + 1
     \/ /\ Len(attempts') = Len(attempts)
        /\ attempts # <<>>
        /\ LastAttempt.outcome = "pending"

\* every attempt of the run returned, page p with lens[p] records
ServedAs(lens) ==
  /\ attempts # <<>>
  /\ \A i \in 1..Len(attempts) :
        /\ attempts[i].outcome = "returned"
        /\ attempts[i].page \in 1..Len(lens)
        /\ attempts[i].len = lens[attempts[i].page]

\* C1: a page result of exactly 250 records is appended, resets retries to
\* 0, and the next fetch of the run is for page + 1
C1_FullPageStep ==
  (Completes("returned") /\ attempts'[Len(attempts')].len = 250)
    => /\ allProducts' = allProducts \o PageRecords(endpoint, page, 250)
       /\ retries' = 0
       /\ page' = page + 1
       /\ pc' = "advancing"

C1_NextFetchIsNextPage ==
  \A i \in 1..(Len(attempts) - 1) :
     (attempts[i].outcome = "returned" /\ attempts[i].len = 250)
       => attempts[i + 1].page = attempts[i].page + 1

C1_FullPageAdvances ==
  /\ [][C1_FullPageStep]_vars
  /\ [](C1_NextFetchIsNextPage /\ (pc = "advancing" => retries = 0))

C1_Witness ==
  /\ Len(attempts) >= 2
  /\ attempts[1].outcome = "returned"
  /\ attempts[1].len = 250
  /\ attempts[2].page = 2
  /\ Length(allProducts) >= 250

\* C2: a non-empty page result shorter than 250 is appended and ends the run
\* without a further fetch; 250 records on page 1 and a short page 2 give
\* all of them after exactly two fetches, one inter-page delay and no retry
C2_ShortPageIsLast ==
  \A i \in 1..Len(attempts) :
     (attempts[i].outcome = "returned" /\ attempts[i].len > 0 /\ attempts[i].len < 250)
       => /\ i = Len(attempts)
          /\ pc = "done"
          /\ Length(returned) >= attempts[i].len
          /\ SubSeq(Flatten(returned), Length(returned) - attempts[i].len + 1, Length(returned))
               = [k \in 1..attempts[i].len |-> Rec(endpoint, attempts[i].page, k)]

C2_TwoPageScenario ==
  (pc = "done" /\ ServedAs(<<250, ShortLen>>))
    => /\ Flatten(returned) =
            [k \in 1..(250 + ShortLen) |->
               IF k <= 250 THEN Rec(endpoint, 1, k) ELSE Rec(endpoint, 2, k - 250)]
       /\ Length(returned) = 250 + ShortLen
       /\ Len(attempts) = 2
       /\ delays = <<DELAY_BETWEEN_REQUESTS>>
       /\ retries = 0

C2_ShortPageFinishes == C2_ShortPageIsLast /\ C2_TwoPageScenario

C2_Witness ==
  /\ pc = "done"
  /\ ServedAs(<<250, ShortLen>>)
  /\ Len(attempts) = 2
  /\ Len(Flatten(returned)) = 250 + ShortLen

\* C3: an empty page result ends the run at once, on any page, leaving the
\* retry counter and the accumulated records as they are; a full page 1 and
\* an empty page 2 give the page-1 records after exactly two fetches
C3_EmptyPageStep ==
  (Completes("returned") /\ attempts'[Len(attempts')].len = 0)
    => /\ pc' = "done"
       /\ retries' = retries
       /\ allProducts' = allProducts
       /\ returned' = allProducts
       /\ page' = page

C3_EmptyPageIsLast ==
  \A i \in 1..Len(attempts) :
     (attempts[i].outcome = "returned" /\ attempts[i].len = 0)
       => (i = Len(attempts) /\ pc = "done")

C3_FullThenEmptyScenario ==
  (pc = "done" /\ ServedAs(<<250, 0>>))
    => /\ Flatten(returned) = [k \in 1..250 |-> Rec(endpoint, 1, k)]
       /\ Len(attempts) = 2

C3_EmptyPageFinishes ==
  /\ [][C3_EmptyPageStep]_vars
  /\ [](C3_EmptyPageIsLast /\ C3_FullThenEmptyScenario)

C3_Witness ==
  /\ pc = "done"
  /\ Len(attempts) = 2
  /\ attempts[1].outcome = "threw"
  /\ attempts[2].outcome = "returned"
  /\ attempts[2].len = 0
  /\ attempts[2].page = 1
  /\ retries = 1

\* C4: an exception in the fetch-and-accumulate step adds one to retries,
\* keeps page and allProducts, is followed by a delay of twice the
\* inter-page delay, and the next fetch of the run is for the same page
C4_ThrowStep ==
  Completes("threw")
    => /\ retries' = retries + 1
       /\ page' = page
       /\ allProducts' = allProducts
       /\ pc' = "retrying"

C4_RetryDelayStep ==
  (pc = "retrying" /\ pc' # "retrying")
    => /\ delays' = Append(delays, 2 * DELAY_BETWEEN_REQUESTS)
       /\ page' = page
       /\ allProducts' = allProducts
       /\ retries' = retries

C4_NextFetchIsSamePage ==
  \A i \in 1..(Len(attempts) - 1) :
     attempts[i].outcome = "threw" => attempts[i + 1].page = attempts[i].page

C4_ExceptionRetriesSamePage ==
  /\ [][C4_ThrowStep /\ C4_RetryDelayStep]_vars
  /\ []C4_NextFetchIsSamePage

C4_Witness ==
  /\ Len(attempts) >= 3
  /\ attempts[1].len = 250
  /\ attempts[2].outcome = "threw"
  /\ attempts[2].page = 2
  /\ attempts[3].page = 2
  /\ delays = <<DELAY_BETWEEN_REQUESTS, 2 * DELAY_BETWEEN_REQUESTS>>

\* C5: with retries at MAX_RETRIES no fetch is issued any more and the run
\* returns what it has accumulated; when every attempt throws the run
\* returns the empty sequence after exactly MAX_RETRIES attempts
C5_ExhaustedStep ==
  (retries = 3 /\ pc = "retrying" /\ pc' # "retrying")
    => /\ pc' = "done"
       /\ returned' = allProducts
       /\ attempts' = attempts

C5_NoFetchWhenExhausted == retries >= 3 => (retries = 3 /\ pc \in {"retrying", "done"})

C5_AllThrowScenario ==
  (pc = "done" /\ attempts # <<>>
     /\ \A i \in 1..Len(attempts) : attempts[i].outcome = "threw")
    => (returned = <<>> /\ Len(attempts) = 3)

C5_RetryBudget ==
  /\ [][C5_ExhaustedStep]_vars
  /\ [](C5_NoFetchWhenExhausted /\ C5_AllThrowScenario)

C5_Witness ==
  /\ pc = "done"
  /\ Len(attempts) = 5
  /\ attempts[1].outcome = "threw"
  /\ attempts[2].len = 250
  /\ \A i \in 3..5 : attempts[i].outcome = "threw"
  /\ Flatten(returned) = [k \in 1..250 |-> Rec(endpoint, 1, k)]

\* the aggregates the snapshot file holds, unexpired at time t, under key
SnapshotAggregates(file, key, t) ==
  {file.entries[i][2].data : i \in
     {j \in 1..Len(file.entries) :
        file.entries[j][1] = key /\ t <= file.entries[j][2].expiry}}

\* the current run found an unexpired aggregate under its key when it started
StartedWithHit ==
  /\ runs > 0
  /\ UrlParses(endpoint)
  /\ SnapshotAggregates(startFile, cacheKey(endpoint), startTime) # {}

\* the current run found no aggregate, or an expired one, when it started
StartedWithMiss ==
  /\ runs > 0
  /\ UrlParses(endpoint)
  /\ SnapshotAggregates(startFile, cacheKey(endpoint), startTime) = {}

\* C6: a run that starts with an unexpired aggregate under the endpoint key
\* returns that aggregate with no page fetch, no fallback call and no cache
\* write; a run that starts without one starts fetching at page 1
C6_HitReturnsAggregate ==
  StartedWithHit
    => /\ pc = "done"
       /\ [products |-> returned] \in SnapshotAggregates(startFile, cacheKey(endpoint), startTime)
       /\ attempts = <<>>
       /\ direct = "none"
       /\ fallback = "none"
       /\ setLog = <<>>
       /\ cacheFile = startFile
       /\ Stringify(cache) = startFile.entries

C6_MissStartsAtPageOne ==
  StartedWithMiss
    => /\ pc # "thrown"
       /\ (attempts = <<>> => (pc = "fetching" /\ page = 1))
       /\ (attempts # <<>> => attempts[1].page = 1)

C6_CacheShortCircuit == C6_HitReturnsAggregate /\ C6_MissStartsAtPageOne

C6_Witness ==
  /\ StartedWithHit
  /\ pc = "done"
  /\ Length(returned) = 250 + ShortLen
  /\ startTime = CACHE_TTL
  /\ hitCount = 1

\* C7: when a run that paginated completes, the aggregate is written under
\* the endpoint key with a TTL of one hour if and only if it is not empty;
\* an empty aggregate creates or overwrites no entry, and nothing is
\* written before completion
C7_WriteIffNonEmpty ==
  (pc = "done" /\ attempts # <<>>)
    => IF returned # <<>>
       THEN /\ Len(setLog) = 1
            /\ setLog[1].key = cacheKey(endpoint)
            /\ setLog[1].ttl = 3600000
            /\ MapHas(cache, cacheKey(endpoint))
            /\ cache[MapIndex(cache, cacheKey(endpoint))].data = [products |-> returned]
            /\ cache[MapIndex(cache, cacheKey(endpoint))].expiry = setLog[1].at + 3600000
       ELSE /\ setLog = <<>>
            /\ ~MapHas(cache, cacheKey(endpoint))
            /\ \A i \in 1..Len(cache) :
                  \E j \in 1..Len(startFile.entries) :
                     /\ startFile.entries[j][1] = cache[i].key
                     /\ startFile.entries[j][2].data = cache[i].data
                     /\ startFile.entries[j][2].expiry = cache[i].expiry

C7_NoWriteBeforeCompletion ==
  pc \in {"fetching", "fallback", "advancing", "retrying"} => setLog = <<>>

C7_AggregateWriteBack == C7_WriteIffNonEmpty /\ C7_NoWriteBeforeCompletion

C7_Witness ==
  /\ pc = "done"
  /\ attempts # <<>>
  /\ returned # <<>>
  /\ runs = 2
  /\ Len(cache) = 2
  /\ Len(setLog) = 1
  /\ cacheFile.exists
  /\ Len(cacheFile.entries) = 2

\* C8: a run never throws to its caller, whatever the endpoint string
C8_RunNeverThrows == pc # "thrown"

\* C9: within one page request fetchWithPuppeteer is called if and only if
\* the direct request failed (timeout, non-2xx status, parse error, network
\* error); a 2xx body without a products field gives the empty page without
\* the fallback
C9_FallbackIffDirectFailed ==
  (attempts # <<>> /\ LastAttempt.outcome # "pending")
    => /\ (fallback # "none") <=> (direct \in DirectFailures)
       /\ direct \in {"null body", "no products field"}
            => (fallback = "none" /\ LastAttempt.outcome = "returned" /\ LastAttempt.len = 0)

\* C10: fetching one page never raises: whichever step of the direct request
\* or of the fallback fails, the page result is the empty sequence
C10_PageFetchNeverRaises ==
  (attempts # <<>> /\ fallback \in {"launch failed", "error", "close failed"})
    => (LastAttempt.outcome = "returned" /\ LastAttempt.len = 0)

(* ---- claims about the cache object ---- *)
\* the instant the last set of key k gave its entry as expiry
ExpiresAt(k) == lastSet[k].at + lastSet[k].ttl

\* the last call was made on a key set on this object, with no clear since
OnSetKey(name) == op.name = name /\ lastSet[op.key].isSet

\* C11, get: for a key set with value v and ttl t at time s, with no later
\* set or clear, get returns v at every time up to and including s + t, and
\* null at every later time.
C11_GetUntilExpiry ==
  OnSetKey("get") =>
    op.value = (IF now <= ExpiresAt(op.key) THEN lastSet[op.key].data ELSE null)

\* C11, has: for such a key, has returns true at every time up to and
\* including s + t, and false at every later time.
C11_HasUntilExpiry ==
  OnSetKey("has") => (op.found <=> now <= ExpiresAt(op.key))

\* C11: a key set with value v and ttl t at time s, with no later set or
\* clear, is present (get returns v, has returns true) at every time
\* now <= s + t, the boundary included, and absent (get returns null, has
\* returns false) at every time now > s + t.
C11_VisibleUntilExpiry == C11_GetUntilExpiry /\ C11_HasUntilExpiry

\* has answers true at the very instant of the expiry, after get answered
\* the value at that same instant
C11_Witness ==
  /\ OnSetKey("has")
  /\ now = ExpiresAt(op.key)
  /\ op.found
  /\ hitCount = 2

\* C12: a get or has call on a key whose entry has expired evicts the entry:
\* after the call the key is no longer in the mapping, so the size no longer
\* counts it.
C12_ExpiredLookupEvicts ==
  (op.name \in {"get", "has"} /\ op.was = "expired") => ~MapHas(cache, op.key)

\* the entries a Map holds for key k
EntriesOf(m, k) == {i \in 1..Len(m) : m[i].key = k}

\* this step is the call set(key, data, ttl): the Map then holds one entry for
\* key, with the data and the expiry now + ttl of this call, and for every
\* other key what it held before
C13_SetStep ==
  op'.name = "set" =>
    LET k == op'.key
    IN /\ Cardinality(EntriesOf(cache', k)) = 1
       /\ cache'[MapIndex(cache', k)].data = lastSet'[k].data
       /\ cache'[MapIndex(cache', k)].expiry = now + lastSet'[k].ttl
       /\ \A j \in Keys \ {k} :
            /\ MapHas(cache', j) <=> MapHas(cache, j)
            /\ MapHas(cache, j) =>
                 cache'[MapIndex(cache', j)] = cache[MapIndex(cache, j)]

\* C13: set(key, value, ttl) replaces any existing entry of the key, live or
\* expired, by the new value with the expiry now + ttl, and leaves the entries
\* of all other keys unchanged.
C13_SetReplaces == [][C13_SetStep]_vars

\* a set that found its key expired, with another key in the Map, and that
\* gave the key another value than the snapshot written before still holds
C13_Witness ==
  /\ op.name = "set"
  /\ op.was = "expired"
  /\ Len(cache) = 2
  /\ ~op.wrote
  /\ cacheFile.exists
  /\ \E i \in 1..Len(cacheFile.entries) :
       /\ cacheFile.entries[i][1] = op.key
       /\ cacheFile.entries[i][2].data # lastSet[op.key].data
       /\ cacheFile.entries[i][2].expiry < now

\* right after clear() the Map is empty and both counters are zero
C14_AfterClear ==
  op.name = "clear" => (cache = EmptyMap /\ hitCount = 0 /\ missCount = 0)

\* a key that was cleared and not set since is missing for get and has
C14_ClearedKeyAbsent ==
  (op.name \in {"get", "has"} /\ lastSet[op.key].cleared) =>
    (op.was = "missing" /\ op.value = null /\ ~op.found)

\* on one object a counter goes down only in a step that is a clear, and that
\* step leaves both counters at zero and the Map empty
C14_ResetStep ==
  (op'.name # "new" /\ (hitCount' < hitCount \/ missCount' < missCount)) =>
    (op'.name = "clear" /\ hitCount' = 0 /\ missCount' = 0 /\ cache' = EmptyMap)

\* C14: after clear() the mapping is empty and both the hit and the miss
\* counter are zero, all in one step (no state has one of them reset and the
\* other not), and get on any key set before the clear returns absent.
C14_ClearResetsAll ==
  /\ []C14_AfterClear
  /\ []C14_ClearedKeyAbsent
  /\ [][C14_ResetStep]_vars

\* the first get after a clear, on a key that the snapshot still holds because
\* the write of the clear failed
C14_Witness ==
  /\ op.name = "get"
  /\ lastSet[op.key].cleared
  /\ hitCount = 0
  /\ missCount = 1
  /\ cacheFile.exists
  /\ \E i \in 1..Len(cacheFile.entries) : cacheFile.entries[i][1] = op.key

\* this step is a get or a has call: it adds one to the hit counter when the
\* entry is present and unexpired, one to the miss counter when it is missing
\* or expired, and leaves the other counter alone
C15_LookupStep ==
  op'.name \in {"get", "has"} =>
    IF op'.was = "live"
    THEN hitCount' = hitCount + 1 /\ missCount' = missCount
    ELSE hitCount' = hitCount /\ missCount' = missCount + 1

\* a set call changes neither counter
C15_SetStep ==
  op'.name = "set" => (hitCount' = hitCount /\ missCount' = missCount)

\* on one object no counter goes down except in a clear
C15_MonotoneStep ==
  op'.name \notin {"clear", "new"} =>
    (hitCount' >= hitCount /\ missCount' >= missCount)

\* hits + misses is the number of get and has calls since the construction
\* or the last clear
C15_CountersSumToCalls == hitCount + missCount = calls

\* C15: every get or has call adds exactly one to exactly one counter (the
\* hit counter iff the entry is present and unexpired, the miss counter for a
\* missing or expired entry), set changes neither, so between clears no
\* counter decreases and hits + misses is the number of get and has calls
\* since the construction or the last clear.
C15_CountersCountLookups ==
  /\ [][C15_LookupStep]_vars
  /\ [][C15_SetStep]_vars
  /\ [][C15_MonotoneStep]_vars
  /\ []C15_CountersSumToCalls

\* a has call that found its key expired, after a lookup that hit
C15_Witness ==
  /\ op.name = "has"
  /\ op.was = "expired"
  /\ hitCount = 1
  /\ missCount = 1
  /\ calls = 2

\* the last call is one of the mutating operations of the contract, and no
\* write it made failed
MutatedAndFlushed ==
  /\ \/ op.name \in {"set", "clear"}
     \/ op.name \in {"get", "has"} /\ op.was = "expired"
  /\ op.wrote

\* C16: after every mutating operation (set, the eviction branch of get and
\* of has, clear) whose flush succeeds, the snapshot file is the full Map, and
\* a cache object constructed from the file holds exactly the entries of the
\* Map.
C16_SnapshotIsMapping ==
  MutatedAndFlushed =>
    /\ cacheFile = [exists |-> TRUE, kind |-> "entries", entries |-> Stringify(cache)]
    /\ NewCache(cacheFile).cache = cache

\* C17: a cache object constructed while the snapshot file is missing,
\* unreadable or malformed (not JSON, or not a list of [key, entry] pairs)
\* has an empty Map and both counters at zero.
C17_BadSnapshotLoadsEmpty ==
  (op.name = "new" /\ cacheFile \in OtherFiles) =>
    (cache = EmptyMap /\ hitCount = 0 /\ missCount = 0)

(* ---- claims about the worker pool ---- *)
\* the snapshot file holds the aggregate of endpoint e under its key
InSnapshot(e) ==
  /\ cacheFile.exists
  /\ \E i \in 1..Len(cacheFile.entries) :
       /\ cacheFile.entries[i][1] = cacheKey(e)
       /\ cacheFile.entries[i][2].data = [products |-> workers[e].products]

\* C18: when every worker has fetched a non-empty aggregate, set it under
\* its own key with a successful write, and finished, the snapshot file
\* holds the entries of all of them, whatever the interleaving of their
\* loads, sets and writes.
C18_NoLostUpdate ==
  (\A e \in GoodEndpoints : workers[e].pc = "exited" /\ workers[e].stored) =>
    \A e \in GoodEndpoints : InSnapshot(e)

\* the worker of e completed successfully: it posted its result
Succeeded(e) == workers[e].message = "result"

\* how often record r occurs in an array of records
Occurrences(records, r) == Cardinality({i \in 1..Len(records) : records[i] = r})

\* the number of records of the first n endpoints whose worker succeeded
RECURSIVE SucceededLength(_)
SucceededLength(n) ==
  IF n = 0 THEN 0
  ELSE SucceededLength(n - 1) +
       (IF Succeeded(ENDPOINTS[n]) THEN Length(workers[ENDPOINTS[n]].products) ELSE 0)

\* the concatenation exists only once every worker has exited
C19_AfterAllExits ==
  mainPc = "done" => \A e \in GoodEndpoints : workers[e].pc = "exited"

\* the concatenation holds every record of every succeeded worker once, and
\* nothing else
C19_EachOnce ==
  mainPc = "done" =>
    /\ LET out == Flatten(poolOut)
       IN \A e \in GoodEndpoints :
            Succeeded(e) =>
              LET records == Flatten(workers[e].products)
              IN \A i \in 1..Len(records) : Occurrences(out, records[i]) = 1
    /\ Length(poolOut) = SucceededLength(Len(ENDPOINTS))

\* C19: mainThread builds its concatenated result only after the worker of
\* every configured endpoint has completed, and the concatenation holds the
\* records of each endpoint that completed successfully exactly once.
C19_ResultAfterAllWorkers == C19_AfterAllExits /\ C19_EachOnce

\* both workers succeeded with records, the second endpoint's result arrived
\* first, and the first endpoint's came from the snapshot
C19_Witness ==
  /\ mainPc = "done"
  /\ \A e \in GoodEndpoints : Succeeded(e) /\ Length(workers[e].products) > 0
  /\ results = <<workers[ENDPOINTS[2]].products, workers[ENDPOINTS[1]].products>>
  /\ ~workers[ENDPOINTS[1]].stored

\* the workers that are executing workerThread
Executing ==
  {e \in GoodEndpoints : workers[e].pc \in {"loaded", "fetching", "returned"}}

\* C20: at no point are more workers executing than MAX_WORKERS.
C20_AtMostMaxWorkers == Cardinality(Executing) <= MAX_WORKERS

\* workerThread of e ended in its catch block: it posted an error message
Faulted(e) == workers[e].message = "error"

\* mainThread has the concatenation
Joined == mainPc \in {"done", "ended", "rejected"}

\* the endpoints that have a record in the concatenation
Contributors == {poolOut[i].endpoint : i \in 1..Len(poolOut)}

\* every page of the aggregate of e is in the concatenation
AppearsInFull(e) ==
  \A i \in 1..Len(workers[e].products) :
    \E j \in 1..Len(poolOut) : poolOut[j] = workers[e].products[i]

\* a faulted worker contributes nothing, and takes nothing from its siblings
C21_FaultContained ==
  Joined =>
    \A f \in GoodEndpoints :
      Faulted(f) =>
        /\ f \notin Contributors
        /\ \A e \in GoodEndpoints \ {f} : Succeeded(e) => AppearsInFull(e)

\* after a fault mainThread still gets to its concatenation
C21_StillCompletes == (\E f \in GoodEndpoints : Faulted(f)) ~> Joined

\* C21: a fault in the worker of one endpoint is isolated: that endpoint
\* contributes an empty result, the records of every sibling endpoint still
\* appear in the final concatenation, and the pool still completes.
C21_FaultIsolated == []C21_FaultContained /\ C21_StillCompletes

\* the worker of the first endpoint faulted with two pages in hand, and the
\* page of its sibling is the concatenation
C21_Witness ==
  /\ Joined
  /\ Faulted(ENDPOINTS[1])
  /\ Len(workers[ENDPOINTS[1]].products) = 2
  /\ Succeeded(ENDPOINTS[2])
  /\ poolOut = workers[ENDPOINTS[2]].products
  /\ poolOut # <<>>

\* the endpoint a record was served by, and its place in that catalog: the
\* page, then the position in the page
EndpointNoOf(r) == r \div 100000
PlaceOf(r) == r % 100000

\* the positions the records of endpoint e have in an array of records
PositionsOf(records, e) ==
  {i \in 1..Len(records) : EndpointNoOf(records[i]) = EndpointNo(e)}

\* the positions are consecutive: at most one of them has no successor
IsBlock(positions) ==
  Cardinality({i \in positions : (i + 1) \notin positions}) <= 1

\* C22: in the final concatenation the records of any one endpoint are one
\* contiguous block in page-fetch order (page 1 before page 2, and so on,
\* each page in source order), whatever the order the workers complete in.
C22_OneBlockInPageOrder ==
  Joined =>
    LET out == Flatten(poolOut)
    IN \A e \in GoodEndpoints :
         LET positions == PositionsOf(out, e)
         IN /\ IsBlock(positions)
            /\ \A i \in positions :
                 (i + 1) \in positions => PlaceOf(out[i]) < PlaceOf(out[i + 1])

\* both workers fetched two pages, and the worker of the second endpoint
\* completed first
C22_Witness ==
  /\ Joined
  /\ \A e \in GoodEndpoints : Succeeded(e) /\ Len(workers[e].products) = 2
  /\ results = <<workers[ENDPOINTS[2]].products, workers[ENDPOINTS[1]].products>>
  /\ Len(Flatten(poolOut)) = 2 * (PAGE_LIMIT + ShortLen)

\* the console has a line that starts with the text
Printed(text) ==
  \E i \in 1..Len(output.console) : output.console[i][1] = text

\* the run told the number of products fetched and the number left by the
\* price filter: in summary.json, or at least on the console, where the
\* number filtered out tells the number left
ReportsCounts ==
  \/ output.summary.exists
  \/ Printed("Total products fetched") /\ Printed("Filtered out")

\* C23: every overall run completes and reports a summary (the count fetched
\* and the count after filtering), also when every endpoint fails or returns
\* nothing and when the price filter removes every product.
C23_EveryRunReports == mainPc = "ended" => ReportsCounts

\* the tokens of the normalized text of the product being classified
Tokens == split(normalizeText(ProductText(product)))

\* how many times a token is a keyword of the i-th entry of the taxonomy
MatchCount(i) ==
  Cardinality({at \in (1..Len(Tokens)) \X (1..Len(taxonomy[i].keywords)) :
                 toLowerCase(taxonomy[i].keywords[at[2]]) = Tokens[at[1]]})

\* some token is a keyword
SomeMatch == \E i \in 1..Len(taxonomy) : MatchCount(i) > 0

\* classifyProduct has returned
Classified == category # NoCategory

\* C24: for any taxonomy with integer priorities, classify returns the
\* category with the highest match count, and among the categories tied on
\* the highest count the one with the lowest priority number.
C24_HighestCountLowestPriority ==
  Classified /\ SomeMatch =>
    \E i \in 1..Len(taxonomy) :
      /\ taxonomy[i].name = category
      /\ \A j \in 1..Len(taxonomy) :
           \/ MatchCount(j) < MatchCount(i)
           \/ MatchCount(j) = MatchCount(i) /\ taxonomy[i].priority <= taxonomy[j].priority

\* some token of the normalized text is a keyword of the taxonomy
TokenIsKeyword ==
  \E t \in 1..Len(Tokens), i \in 1..Len(taxonomy) :
    \E k \in 1..Len(taxonomy[i].keywords) : Tokens[t] = taxonomy[i].keywords[k]

\* C25: classify is total: for every product, also one with missing or empty
\* text fields, it returns exactly one category of the taxonomy, and that
\* category is the fallback "uncategorized" if and only if no token of the
\* normalized product text is a taxonomy keyword.
C25_TotalWithFallback ==
  Classified =>
    /\ Cardinality({i \in 1..Len(taxonomy) : taxonomy[i].name = category}) = 1
    /\ category = "uncategorized" <=> ~TokenIsKeyword

\* a product with no text at all was classified, and fell back
C25_Witness ==
  /\ Classified
  /\ product = [product_type |-> Str(<<>>), title |-> undefined, vendor |-> undefined,
                tags |-> undefined, category |-> undefined]
  /\ Tokens = <<<<>>>>
  /\ category = "uncategorized"

\* the tokens of the normalized text of a product
TokensOf(p) == split(normalizeText(ProductText(p)))

\* how often a token occurs among tokens
TimesIn(tokens, token) == Cardinality({i \in 1..Len(tokens) : tokens[i] = token})

\* the same tokens, in whatever order
SameTokens(a, b) ==
  /\ Len(a) = Len(b)
  /\ \A i \in 1..Len(a) : TimesIn(a, a[i]) = TimesIn(b, a[i])

Called == normalized.by # "none"
ReturnedProduct == normalized.outcome.ended = "returned"
Out == normalized.outcome.value

\* the implementation that was called, once more
Again(p) ==
  IF normalized.by = "worker program" THEN processProductOfWorker(p) ELSE processProduct(p)

\* tags that are absent, empty, or neither a sequence nor a string
NoTags(tags) == TypeOf(tags) \notin {"array", "string"} \/ tags = Str(<<>>)

\* C27: normalize leaves tags unchanged when they are a sequence already,
\* turns the delimited string "a, b" into ["a", "b"], yields the empty
\* sequence when tags is absent, empty, or neither a sequence nor a delimited
\* string, and leaves the tags of its own output unchanged.
C27_TagsNormalized ==
  Called =>
    /\ ReturnedProduct
    /\ TypeOf(raw.tags) = "array" => Out.tags = raw.tags
    /\ raw.tags = Str(Words.a \o <<",", " ">> \o Words.b) =>
         Out.tags = Arr(<<Str(Words.a), Str(Words.b)>>)
    /\ NoTags(raw.tags) => Out.tags = Arr(<<>>)
    /\ Again(Out).ended = "returned" /\ Again(Out).value.tags = Out.tags

\* the variants of the raw record
VariantsOf(p) == IF TypeOf(p.variants) = "array" THEN p.variants.a ELSE <<>>

\* the prices of the variants that parse as numbers, and the compare-at
\* values that do, of the variants that declare one
ParsedPrices ==
  {parseFloat(VariantsOf(raw)[i].price).n :
     i \in {j \in 1..Len(VariantsOf(raw)) : ~parseFloat(VariantsOf(raw)[j].price).nan}}
Declares(v) == v.compare_at_price \notin {undefined, null}
ParsedComparePrices ==
  {parseFloat(VariantsOf(raw)[i].compare_at_price).n :
     i \in {j \in 1..Len(VariantsOf(raw)) :
              /\ Declares(VariantsOf(raw)[j])
              /\ ~parseFloat(VariantsOf(raw)[j].compare_at_price).nan}}

\* the least of a set of numbers, or absent
LeastOrAbsent(S) ==
  IF S = {} THEN undefined ELSE Num(CHOOSE m \in S : \A n \in S : m <= n)

\* C28: normalize sets price to the minimum over all variant prices that
\* parse as numbers, ignoring the others, and to absent when none parses or
\* there are no variants; compare_at_price follows the same rule over the
\* variants that declare a compare-at value.
C28_MinimumPrices ==
  Called /\ ReturnedProduct =>
    /\ Out.price = LeastOrAbsent(ParsedPrices)
    /\ Out.compare_at_price = LeastOrAbsent(ParsedComparePrices)

\* the variants priced "19.99", "abc" and "15.00", of which the last two
\* declare the compare-at values "abc" and "25.00", were normalized
C28_Witness ==
  /\ Called
  /\ ReturnedProduct
  /\ Len(VariantsOf(raw)) >= 3
  /\ \E i \in 1..Len(VariantsOf(raw)) : parseFloat(VariantsOf(raw)[i].price).nan
  /\ \E i \in 1..Len(VariantsOf(raw)) : parseFloat(VariantsOf(raw)[i].price) = Num(1999)
  /\ \E i \in 1..Len(VariantsOf(raw)) : ~Declares(VariantsOf(raw)[i])
  /\ Out.price = Num(1500)
  /\ Out.compare_at_price = Num(2500)

\* absent, or a number that is not negative
AbsentOrNonNegative(v) == v = undefined \/ (~v.nan /\ v.n >= 0)

\* C29: for every raw record, the price and the compare_at_price of the
\* normalized product are each absent or a non-negative finite number,
\* whatever numeric strings the variants carry, negative ones included.
C29_PricesNonNegative ==
  Called /\ ReturnedProduct =>
    AbsentOrNonNegative(Out.price) /\ AbsentOrNonNegative(Out.compare_at_price)

\* C30: normalize never fails: it returns a normalized product for every raw
\* record, whatever is missing or malformed in it (absent variants or images,
\* tags that are neither a sequence nor a string, prices that are no
\* strings), and it does not modify its input.
C30_NeverFails == [](Called => ReturnedProduct) /\ [][raw' = raw]_vars


(* ------------------------------- C31 ----------------------------------- *)
\* a run is inside the fetch/advance/retry cycle
InCycle == pc \in {"fetching", "fallback", "advancing", "retrying"}

\* the run has returned or thrown
Finished == pc \in {"done", "thrown"}

\* C31: every run of processEndpoint eventually finishes when every request
\* settles, every timer fires and the endpoint serves finitely many full
\* pages: a run inside the fetch/advance/retry cycle leads to a finished run.
C31_RunEventuallyFinishes == InCycle ~> Finished

\* a run that finished after a failed attempt, a retry and a full page
C31_Witness ==
  /\ pc = "done"
  /\ \E i \in 1..Len(attempts) : attempts[i].outcome = "threw"
  /\ \E i \in 1..Len(attempts) : attempts[i].len = PAGE_LIMIT
  /\ RetryDelayMs \in {delays[i] : i \in 1..Len(delays)}
  /\ DELAY_BETWEEN_REQUESTS \in {delays[i] : i \in 1..Len(delays)}


(* ------------------------------- C32 ----------------------------------- *)
\* the attempts of the run that appended a page
Appended ==
  {i \in 1..Len(attempts) : attempts[i].outcome = "returned" /\ attempts[i].len > 0}

\* the attempts after the last one that appended a page
SinceLastAppend ==
  {i \in 1..Len(attempts) : \A j \in Appended : j < i}

\* the failed attempts of the run
Failed == {i \in 1..Len(attempts) : attempts[i].outcome = "threw"}

\* the failed attempts since the last appended page follow one another: only
\* a request still under way or the empty page that ends the run comes after
ConsecutiveFailures ==
  \A i \in SinceLastAppend \ Failed :
     /\ i = Len(attempts)
     /\ \/ attempts[i].outcome = "pending"
        \/ attempts[i].outcome = "returned" /\ attempts[i].len = 0

\* the pages asked for never go down, and the page counter is at or one
\* past the last page asked for
PageNeverDecreases ==
  /\ \A i \in 1..Len(attempts) : \A j \in i..Len(attempts) :
        attempts[i].page <= attempts[j].page
  /\ attempts # <<>> => page \in {LastAttempt.page, LastAttempt.page + 1}
  /\ attempts = <<>> => page = 1

\* C32: in every state retries is the number of consecutive failed attempts
\* since the last appended page, 0 <= retries <= MAX_RETRIES, and the page
\* number never decreases within a run.
C32_RetriesCountConsecutiveFailures ==
  /\ retries = Cardinality(SinceLastAppend \cap Failed)
  /\ ConsecutiveFailures
  /\ retries \in 0..MAX_RETRIES
  /\ PageNeverDecreases

\* a run with more failed attempts in total than the budget, because a page
\* was appended between them
C32_Witness ==
  /\ pc = "done"
  /\ retries = MAX_RETRIES
  /\ Cardinality(Failed) > MAX_RETRIES
  /\ Appended # {}


(* ------------------------------- C33 ----------------------------------- *)
\* the attempts of the run that returned page p with records
AppendedPage(p) == {i \in Appended : attempts[i].page = p}

\* the result of page p as the run received it
ResultOfPage(p) ==
  LET i == CHOOSE i \in AppendedPage(p) : TRUE
  IN Slice(endpoint, p, attempts[i].len)

\* the records of an array, without their repetitions
DistinctRecords(arr) ==
  UNION {{Rec(arr[p].endpoint, arr[p].page, n) : n \in 1..arr[p].len} : p \in 1..Len(arr)}

\* C33: at every point of a run allProducts is the in-order concatenation of
\* the results of pages 1..k for some k: each of these pages was appended by
\* exactly one attempt, whole, no attempt appended any other page, and no
\* record is in it twice.
C33_ConcatenationOfPages ==
  LET k == Len(allProducts)
  IN /\ \A p \in 1..k : Cardinality(AppendedPage(p)) = 1
     /\ \A i \in Appended : attempts[i].page \in 1..k
     /\ allProducts = [p \in 1..k |-> ResultOfPage(p)]
     /\ Length(allProducts) = Cardinality(DistinctRecords(allProducts))

\* two pages accumulated, the second one by the retry of a failed attempt
C33_Witness ==
  /\ Len(allProducts) = 2
  /\ Len(attempts) = 3
  /\ attempts[2].outcome = "threw"
  /\ attempts[2].page = 2
  /\ attempts[3].outcome = "returned"
  /\ attempts[3].page = 2
  /\ Length(allProducts) = PAGE_LIMIT + ShortLen


(* ------------------------------- C34 ----------------------------------- *)
\* the run paginated and its last request returned a short or an empty page
EndedByLastPage ==
  /\ attempts # <<>>
  /\ LastAttempt.outcome = "returned"
  /\ LastAttempt.len < PAGE_LIMIT

\* C34: an aggregate a run writes to the cache comes from a pagination that
\* ended with a short or an empty page; a run that stopped because its retry
\* budget was used up writes nothing.
C34_NoPartialAggregateCached ==
  (pc = "done" /\ setLog # <<>>) => (EndedByLastPage /\ retries < MAX_RETRIES)


(* ------------------------------- C35 ----------------------------------- *)
\* the endpoints whose pagination produced the records of an aggregate
ProducersOf(aggregate) == {aggregate[i].endpoint : i \in 1..Len(aggregate)}

\* the endpoints whose aggregates the snapshot held under the key of the
\* current run when it started, expired or not
HeldUnderKey ==
  UNION {ProducersOf(startFile.entries[j][2].data.products) :
           j \in {i \in 1..Len(startFile.entries) :
                    startFile.entries[i][1] = cacheKey(endpoint)}}

\* C35: a cache hit for an endpoint returns an aggregate produced by
\* paginating that same endpoint, and a run writes its aggregate over no
\* other endpoint's aggregate: distinct endpoint URLs never share an entry.
C35_EndpointsNeverShareAnEntry ==
  /\ (pc = "done" /\ StartedWithHit) => ProducersOf(returned) \subseteq {endpoint}
  /\ (pc = "done" /\ setLog # <<>>) => HeldUnderKey \subseteq {endpoint}


(* ------------------------------- C36 ----------------------------------- *)
\* the product has the given title and no other text
OnlyTitle(title) ==
  /\ product.title = Str(title)
  /\ \A field \in {product.product_type, product.vendor, product.tags, product.category} :
        field \in {undefined, Str(<<>>)}

\* C36: every keyword of the taxonomy is matchable: a product whose title is
\* exactly a keyword of a category, multi-word and hyphenated keywords
\* included, and whose other text fields are empty has a match count of at
\* least 1 for that category and is not classified as "uncategorized".
C36_EveryKeywordMatchable ==
  Classified =>
    \A i \in 1..Len(taxonomy) : \A k \in 1..Len(taxonomy[i].keywords) :
      OnlyTitle(taxonomy[i].keywords[k]) =>
        /\ MatchCount(i) >= 1
        /\ category # "uncategorized"


(* ------------------------------- C37 ----------------------------------- *)
\* the elements of the files before file f, in input order
RECURSIVE ElementsBefore(_)
ElementsBefore(f) ==
  IF f <= 1 THEN <<>>
  ELSE ElementsBefore(f - 1) \o
       (IF TypeOf(organizer.files[f - 1]) = "array" THEN organizer.files[f - 1].a ELSE <<>>)

\* the elements the loop has been through, in input order
Seen ==
  ElementsBefore(organizer.file) \o
  (IF organizer.pc = "products"
   THEN SubSeq(organizer.files[organizer.file].a, 1, organizer.i - 1)
   ELSE <<>>)

\* the elements seen that classifyProduct put into collection c, in input order
ClassifiedInto(c) ==
  LET Into(p) == p # null /\ classifyProduct(p, taxonomy) = c
  IN SelectSeq(Seen, Into)

\* the list and the count the locals hold for collection c
ListOf(c) ==
  LET entries == organizer.classifiedProducts
      at == {k \in 1..Len(entries) : entries[k].collection = c}
  IN IF at = {} THEN <<>> ELSE entries[CHOOSE k \in at : TRUE].products
CountOf(c) ==
  LET entries == organizer.collectionStats
      at == {k \in 1..Len(entries) : entries[k].collection = c}
  IN IF at = {} THEN 0 ELSE entries[CHOOSE k \in at : TRUE].count

\* the sum of the per-category counts
RECURSIVE SumOfCounts(_)
SumOfCounts(entries) ==
  IF entries = <<>> THEN 0 ELSE Head(entries).count + SumOfCounts(Tail(entries))

\* C37: while organizeCollections processes products, every product that
\* was classified without error is in exactly one category list, in input
\* order; totalProducts is the sum of the per-category counts, each count is
\* the length of the category's list, and unclassifiedProducts is the list
\* of "uncategorized".
C37_CountsAndListsAgree ==
  organizer.pc # "none" =>
    LET names == {taxonomy[k].name : k \in 1..Len(taxonomy)}
        lists == organizer.classifiedProducts
        stats == organizer.collectionStats
    IN /\ \A c \in names : ListOf(c) = ClassifiedInto(c)
       /\ \A k \in 1..Len(lists) :
             /\ lists[k].collection \in names
             /\ \A j \in 1..Len(lists) : lists[j].collection = lists[k].collection => j = k
       /\ \A k \in 1..Len(stats) :
             \A j \in 1..Len(stats) : stats[j].collection = stats[k].collection => j = k
       /\ organizer.totalProducts = SumOfCounts(stats)
       /\ \A c \in names : CountOf(c) = Len(ListOf(c))
       /\ organizer.unclassifiedProducts = ListOf("uncategorized")

\* two files were processed: a null was passed over and two different
\* products are in the list of one category
C37_Witness ==
  /\ organizer.pc = "done"
  /\ Len(organizer.files) = 2
  /\ Len(Seen) = 3
  /\ organizer.totalProducts = 2
  /\ Len(ListOf("apparel")) = 2
  /\ ListOf("apparel")[1] # ListOf("apparel")[2]


(* ------------------------------- C38 ----------------------------------- *)
\* the price of the k-th product handed in, with an absent price taken as 0
PriceOrZero(k) ==
  IF filtering.products[k].price = undefined THEN 0 ELSE filtering.products[k].price.n

\* the places of the products handed in whose price reaches the threshold
Reaching == {k \in 1..Len(filtering.products) : PriceOrZero(k) >= filtering.minPrice * 100}

\* C38: the minimum-price filter returns exactly the products handed in
\* whose derived price is >= the threshold, in their original relative order;
\* a product with no price counts as price 0 and is dropped whenever the
\* threshold is greater than 0.
C38_FilterKeepsExactlyThePriced ==
  filtering.called =>
    LET out == filtering.returned
    IN /\ Len(out) = Cardinality(Reaching)
       /\ \A j \in 1..Len(out) :
             /\ out[j].id \in Reaching
             /\ out[j] = filtering.products[out[j].id]
             /\ \A i \in 1..(j - 1) : out[i].id < out[j].id
       /\ \A k \in 1..Len(filtering.products) :
             (filtering.products[k].price = undefined /\ filtering.minPrice > 0)
                => \A j \in 1..Len(out) : out[j].id # k

\* of three products the one without a price and the one below the
\* threshold were dropped, and the one at the threshold was kept
C38_Witness ==
  /\ filtering.called
  /\ filtering.minPrice = MINIMUM_PRICE
  /\ Len(filtering.products) = 3
  /\ filtering.products[1].price = undefined
  /\ filtering.products[2].price = Num(2499)
  /\ filtering.products[3].price = Num(2500)
  /\ filtering.returned = <<filtering.products[3]>>

====
